---- MODULE Spec2Model ----
(***************************************************************************)
(* Model of the newscale stage-control library: the addressed transport   *)
(* (interfaces.py), the axis controller (stage.py) and the multi-axis     *)
(* coordinator (multistage.py).                                            *)
(*                                                                         *)
(* A public operation is one action.  The frames it writes to the raw      *)
(* channel and the replies it reads are recorded, in order, in opTrace.    *)
(* The replies of the hub and of the stages are inputs of the action.      *)
(***************************************************************************)
EXTENDS Integers, Sequences, FiniteSets, TLC

\* ------------------------------------------------------------------------
\* Bounds
\* ------------------------------------------------------------------------
\* frames a caller of the bare transport may leave unread
MaxOutstanding == 2

\* ------------------------------------------------------------------------
\* Protocol constants (device_codes.py)
\* ------------------------------------------------------------------------
None == "None"

TRANSCEIVER_PREFIX == "TR"

\* StageCmd opcodes
FIRMWARE_VERSION == "01"
RELEASE_HOST_CONTROL == "02"
HALT == "03"
MOVE_TO_TARGET == "08"
CLOSED_LOOP_STATE == "10"
DRIVE_MODE == "20"
ILLEGAL_COMMAND_FORMAT == "23"
ILLEGAL_COMMAND == "24"

\* TransceiverCmd opcodes
STAGE_SELECT == "A0"

\* DriveMode values
OPEN_LOOP == "0"
CLOSED_LOOP == "1"

\* Direction
BACKWARD == "0"
FORWARD == "1"
NEITHER == "N"

\* an argument left out (None) and an argument given
Nothing == <<>>
Some(v) == <<v>>
The(o) == o[1]

\* the first n elements of s, all of s when it has fewer
Take(s, n) == SubSeq(s, 1, IF n <= Len(s) THEN n ELSE Len(s))

\* the attributes a controller starts with (stage.py lines 53-55)
InitAttrs ==
    [time_interval_us |-> Nothing, step_size_specified |-> FALSE,
     last_direction |-> NEITHER]

\* ------------------------------------------------------------------------
\* Environment: the hub addresses, the transport variants, the replies
\* ------------------------------------------------------------------------
\* addresses of the stages behind the hub (USBXYZStage uses '01', '02', ...)
Addresses == {"01", "02"}

\* USBInterface over a pyserial port, USBInterface over a USBXpress device,
\* PoEInterface over a socket
Kinds == {"pyserial", "usbxpress", "poe"}

\* what the hub answers to a stage-select frame: the device-present flag of
\* <A0 addr flag>, or nothing at all
SelectReplies == {"0", "1", "2", "timeout"}

\* what a stage answers to a command: a reply of the command's shape, <24>,
\* <23>, or nothing at all
StageReplies == {"ok", "illegal", "format", "timeout"}

\* what an axis operation meets: the hub's answer to the select and, when
\* the hub confirmed the stage (or no select was due), the stage's answer
AxisReplies ==
    {<<"1", r>> : r \in StageReplies}
        \cup {<<s, "timeout">> : s \in {"0", "timeout"}}

\* what the transceiver answers to its own firmware-version query
TrReplies == {"ok", "timeout"}

VARIABLES
    kind,            \* which transport class is (to be) instantiated
    ifaceUp,         \* the HardwareInterface object exists
    last_address,    \* HardwareInterface.last_address
    hub_confirmed,   \* address of the most recent select reply with flag 1
    outstanding,     \* frames written whose reply was not read yet
    host_control,    \* per address: host control established on the stage
    axisUp,          \* per address: the M3LinearSmartStage object exists
    attrs,           \* per address: the controller's attributes
    stages,          \* MultiStage.stages: the dict's items, in iteration
                     \* order, each the axis name and its controller
    opTrace,         \* channel events of the most recent public operation
    call,            \* the most recent public operation, its
                     \* arguments and its result
    blocked,         \* the caller hangs in a read that never returns
    pc,              \* where a running move_absolute or move_for_time
                     \* call stands
    moving,          \* which of the two it is
    wait,            \* its wait argument
    targets,         \* the axes it names, in keyword order
    idx,             \* the axis its current loop is at
    moved,           \* the axes whose move command made its round trip
    polled,          \* the axes queried in the current poll iteration
    clock,           \* perf_counter(), in seconds
    start_time,      \* start_time of the polling loop
    stats,           \* the stats dict of the current poll iteration
    truth,           \* the state words the stages reported in this iteration
    fresh,           \* the axes that reported in the current iteration
    stallSeen,       \* a named axis reported Stalled during this call
    outcome,         \* how the call ended
    use_lock,        \* the callers hold one lock of their own around _send
    lock_owner,      \* the thread holding that lock
    tpc,             \* per thread: where its _send call stands
    taxis,           \* per thread: the address of the axis it operates
    ops,             \* per thread: the operations it has begun
    hub_selected,    \* the device the hub forwards stage frames to
    line,            \* the replies on the serial line, oldest first
    arrived,         \* per thread: where the command of its call arrived
    taken            \* per thread: what the last read of its call took

tvars == <<kind, ifaceUp, last_address, hub_confirmed, outstanding,
           host_control, axisUp, attrs, stages, opTrace, call, blocked>>

mvars == <<pc, moving, wait, targets, idx, moved, polled, clock, start_time,
           stats, truth, fresh, stallSeen, outcome>>

cvars == <<use_lock, lock_owner, tpc, taxis, ops, hub_selected, line, arrived,
           taken>>

vars == <<tvars, mvars, cvars>>

\* ------------------------------------------------------------------------
\* Frames and channel events
\* ------------------------------------------------------------------------
StageFrame(cmd, arg) == [tr |-> FALSE, cmd |-> cmd, arg |-> arg]
TrFrame(cmd, arg) == [tr |-> TRUE, cmd |-> cmd, arg |-> arg]
NoFrame == [tr |-> FALSE, cmd |-> "-", arg |-> ""]

\* a frame written with send(msg, address); conf and hc are the hub's
\* confirmed selection and the addressed stage's host control at that moment
WriteEv(c, frame, address, enc) ==
    [k |-> "w", frame |-> frame, addr |-> address, enc |-> enc,
     conf |-> c.conf,
     hc |-> IF address \in Addresses THEN c.hc[address] ELSE FALSE,
     data |-> "-"]

ReadEv(data) ==
    [k |-> "r", frame |-> NoFrame, addr |-> None, enc |-> FALSE,
     conf |-> None, hc |-> FALSE, data |-> data]

\* the running state of one public operation
Ctx0 ==
    [last |-> last_address, conf |-> hub_confirmed, out |-> outstanding,
     hc |-> host_control, at |-> attrs, tr |-> <<>>, data |-> "-",
     warn |-> FALSE, st |-> "ok", err |-> "-", ret |-> Nothing]

Raise(c, e) == [c EXCEPT !.st = "raise", !.err = e]

\* statement order: v is computed once, then F runs on its value
Bind(v, F(_)) == CHOOSE r \in {F(x) : x \in {v}} : TRUE

\* ------------------------------------------------------------------------
\* NewScaleSerial / socket: the raw channel
\* ------------------------------------------------------------------------
\* NewScaleSerial.write, socket.sendall
write(c0, frame, address, enc) ==
    Bind(c0, LAMBDA c :
        [c EXCEPT !.tr = Append(@, WriteEv(c, frame, address, enc)),
                  !.out = @ + 1])

\* NewScaleSerial.readLine: pyserial returns what arrived within the 1 s
\* timeout (nothing when the frame is never answered), the USBXpress loop
\* reads until it sees a carriage return
readLine(c0, reply) ==
    Bind(c0, LAMBDA c :
        IF reply = "timeout" \/ c.out = 0
        THEN IF kind = "pyserial"
             THEN [c EXCEPT !.tr = Append(@, ReadEv("")), !.data = "",
                            !.out = IF @ > 0 THEN @ - 1 ELSE 0]
             ELSE [c EXCEPT !.st = "block"]
        ELSE [c EXCEPT !.tr = Append(@, ReadEv(reply)), !.data = reply,
                       !.out = @ - 1])

\* socket.recv without a timeout
recv(c0, reply) ==
    Bind(c0, LAMBDA c :
        IF reply = "timeout" \/ c.out = 0
        THEN [c EXCEPT !.st = "block"]
        ELSE [c EXCEPT !.tr = Append(@, ReadEv(reply)), !.data = reply,
                       !.out = @ - 1])

\* ------------------------------------------------------------------------
\* HardwareInterface, USBInterface, PoEInterface
\* ------------------------------------------------------------------------
\* the part of send after the selection: re-encode a transceiver frame on
\* USB (high bit of every byte set) and write it
USB_transmit(c, msg, address) == write(c, msg, address, msg.tr)
PoE_transmit(c, msg, address) == write(c, msg, address, FALSE)
transmit(c, msg, address) ==
    IF kind = "poe" THEN PoE_transmit(c, msg, address)
    ELSE USB_transmit(c, msg, address)

\* read() without an address: no comparison with last_address is made
receive(c, reply) ==
    IF kind = "poe" THEN recv(c, reply) ELSE readLine(c, reply)

\* parse_tr_reply on what the read returned: an empty string is no command
parse_tr_reply(c0) ==
    Bind(c0, LAMBDA c : IF c.data = "" THEN Raise(c, "ValueError") ELSE c)

\* HardwareInterface._select_stage
select_stage(c, address, sreply) ==
    Bind(receive(transmit([c EXCEPT !.last = address],
                          TrFrame(STAGE_SELECT, address), None), sreply),
         LAMBDA c3 :
    IF c3.st # "ok" THEN c3 ELSE
    Bind(parse_tr_reply(c3), LAMBDA c4 :
    IF c4.st # "ok" THEN c4 ELSE
    Bind([c4 EXCEPT !.conf = IF c4.data = "1" THEN address ELSE None],
         LAMBDA c5 :
    IF ~(c5.data = "1") THEN Raise(c5, "AddressNotPresent") ELSE c5)))

\* USBInterface.send with the comparison against last_address left out
USB_send_always_select(c0, msg, address, sreply) ==
    Bind(c0, LAMBDA c :
    Bind(IF address # None
         THEN select_stage(c, address, sreply)
         ELSE c, LAMBDA c1 :
    IF c1.st # "ok" THEN c1 ELSE USB_transmit(c1, msg, address)))

\* USBInterface.send
USB_send(c0, msg, address, sreply) ==
    Bind(c0, LAMBDA c :
    Bind(IF address # None /\ c.last # address
         THEN select_stage(c, address, sreply)
         ELSE c, LAMBDA c1 :
    IF c1.st # "ok" THEN c1 ELSE USB_transmit(c1, msg, address)))

\* PoEInterface.send
PoE_send(c0, msg, address, sreply) ==
    Bind(c0, LAMBDA c :
    Bind(IF address # None /\ c.last # address
         THEN select_stage(c, address, sreply)
         ELSE c, LAMBDA c1 :
    IF c1.st # "ok" THEN c1 ELSE PoE_transmit(c1, msg, address)))

send(c, msg, address, sreply) ==
    IF kind = "poe" THEN PoE_send(c, msg, address, sreply)
    ELSE USB_send(c, msg, address, sreply)

\* USBInterface.read
USB_read(c, address, reply) ==
    Bind(readLine(c, reply), LAMBDA c1 :
    IF c1.st # "ok" THEN c1
    ELSE [c1 EXCEPT !.warn = (address # None /\ c1.last # address)])

\* PoEInterface.read
PoE_read(c0, address, reply, sreply) ==
    Bind(c0, LAMBDA c :
    Bind(IF address # None /\ c.last # address
         THEN select_stage(c, address, sreply)
         ELSE c, LAMBDA c1 :
    IF c1.st # "ok" THEN c1 ELSE recv(c1, reply)))

read(c, address, reply, sreply) ==
    IF kind = "poe" THEN PoE_read(c, address, reply, sreply)
    ELSE USB_read(c, address, reply)

\* HardwareInterface.__init__ that selects a first stage after the handshake
HardwareInterface_init_select(c, reply) ==
    Bind(send([c EXCEPT !.last = None], TrFrame(FIRMWARE_VERSION, ""), None,
              "timeout"), LAMBDA c2 :
    Bind(read(c2, None, reply, "timeout"), LAMBDA c3 :
    IF c3.st # "ok" THEN c3 ELSE
    Bind(parse_tr_reply(c3), LAMBDA c4 :
    IF c4.st # "ok" THEN c4 ELSE select_stage(c4, "01", "1"))))

\* HardwareInterface.__init__
HardwareInterface_init(c, reply) ==
    Bind(send([c EXCEPT !.last = None], TrFrame(FIRMWARE_VERSION, ""), None,
              "timeout"), LAMBDA c2 :
    Bind(read(c2, None, reply, "timeout"), LAMBDA c3 :
    IF c3.st # "ok" THEN c3 ELSE parse_tr_reply(c3)))

\* ------------------------------------------------------------------------
\* Public operations of the transport
\* ------------------------------------------------------------------------
\* the frames a caller hands to send(): stage commands and transceiver
\* commands
Messages ==
    {StageFrame(FIRMWARE_VERSION, ""), StageFrame(HALT, ""),
     TrFrame(FIRMWARE_VERSION, "")}

\* the state left by an operation that was called with args and ran from
\* Ctx0 to c
FinishWith(op, address, msg, args, c) ==
    /\ last_address' = c.last
    /\ hub_confirmed' = c.conf
    /\ outstanding' = c.out
    /\ host_control' = c.hc
    /\ attrs' = c.at
    /\ opTrace' = c.tr
    /\ blocked' = (c.st = "block")
    /\ UNCHANGED cvars
    /\ call' = [op |-> op, addr |-> address, msg |-> msg,
                pre_last |-> last_address, pre_conf |-> hub_confirmed,
                res |-> c.st, err |-> c.err, warn |-> c.warn,
                args |-> args, ret |-> c.ret]

Finish(op, address, msg, c) == FinishWith(op, address, msg, <<>>, c)

NoCall ==
    [op |-> "-", addr |-> None, msg |-> NoFrame, pre_last |-> None,
     pre_conf |-> None, res |-> "ok", err |-> "-", warn |-> FALSE,
     args |-> <<>>, ret |-> Nothing]

\* interface = USBInterface(serial) / PoEInterface(address)
NewInterface ==
    /\ ~ifaceUp /\ ~blocked
    /\ \E reply \in TrReplies :
         \E c \in {HardwareInterface_init(Ctx0, reply)} :
             /\ Finish("NewInterface", None, NoFrame, c)
             /\ ifaceUp' = (c.st = "ok")
    /\ UNCHANGED <<kind, axisUp, stages, mvars>>

\* interface.send(msg, address)
Send ==
    /\ ifaceUp /\ ~blocked /\ outstanding < MaxOutstanding
    /\ \E msg \in Messages, address \in Addresses \cup {None},
          sreply \in SelectReplies :
         /\ msg.tr => address = None
         /\ \E c \in {send(Ctx0, msg, address, sreply)} :
               Finish("send", address, msg, c)
    /\ UNCHANGED <<kind, ifaceUp, axisUp, stages, mvars>>

\* interface.read(address)
Read ==
    /\ ifaceUp /\ ~blocked
    /\ \E address \in Addresses \cup {None}, reply \in StageReplies,
          sreply \in SelectReplies :
         \E c \in {read(Ctx0, address, reply, sreply)} :
             Finish("read", address, NoFrame, c)
    /\ UNCHANGED <<kind, ifaceUp, axisUp, stages, mvars>>

\* interface._select_stage(address)
SelectStage ==
    /\ ifaceUp /\ ~blocked /\ outstanding < MaxOutstanding
    /\ \E address \in Addresses, sreply \in SelectReplies :
         \E c \in {select_stage(Ctx0, address, sreply)} :
             Finish("select", address, NoFrame, c)
    /\ UNCHANGED <<kind, ifaceUp, axisUp, stages, mvars>>

Threads == {"t1", "t2"}

\* no thread is inside _send
NoThreads ==
    /\ use_lock = FALSE
    /\ lock_owner = None
    /\ tpc = [t \in Threads |-> [at |-> "idle", in |-> "-"]]
    /\ taxis = [t \in Threads |-> None]
    /\ ops = [t \in Threads |-> 0]
    /\ hub_selected = None
    /\ line = <<>>
    /\ arrived = [t \in Threads |-> Nothing]
    /\ taken = [t \in Threads |-> Nothing]

\* no move_absolute call is running
NoMove ==
    /\ pc = "idle"
    /\ moving = "none"
    /\ wait = FALSE
    /\ targets = <<>>
    /\ idx = 1
    /\ moved = <<>>
    /\ polled = <<>>
    /\ clock = 0
    /\ start_time = 0
    /\ stats = <<>>
    /\ truth = <<>>
    /\ fresh = {}
    /\ stallSeen = FALSE
    /\ outcome = "none"

InitMove == NoMove /\ NoThreads

InitTransport ==
    /\ InitMove
    /\ kind \in Kinds
    /\ ifaceUp = FALSE
    /\ last_address = None
    /\ hub_confirmed = None
    /\ outstanding = 0
    /\ host_control = [a \in Addresses |-> FALSE]
    /\ axisUp = [a \in Addresses |-> FALSE]
    /\ attrs = [a \in Addresses |-> InitAttrs]
    /\ stages = <<>>
    /\ opTrace = <<>>
    /\ call = NoCall
    /\ blocked = FALSE

NextTransport == NewInterface \/ Send \/ Read \/ SelectStage

SpecTransport == InitTransport /\ [][NextTransport]_vars

\* ------------------------------------------------------------------------
\* M3LinearSmartStage (stage.py)
\* ------------------------------------------------------------------------
\* M3LinearSmartStage._parse_reply on what the read returned: an empty
\* string is no command, <24> and <23> raise
parse_reply(c0) ==
    Bind(c0, LAMBDA c :
    IF c.data = "" THEN Raise(c, "ValueError")
    ELSE IF c.data = "illegal" THEN Raise(c, "IllegalCommandError")
    ELSE IF c.data = "format" THEN Raise(c, "IllegalCommandFormatError")
    ELSE c)

\* the stage's host control follows the traffic: a release-host-control
\* frame gives it up, an answered firmware-version request establishes it
Released(c0, address, frame) ==
    Bind(c0, LAMBDA c :
    IF address \in Addresses /\ frame.cmd = RELEASE_HOST_CONTROL
    THEN [c EXCEPT !.hc[address] = FALSE] ELSE c)

Established(c0, address, frame) ==
    Bind(c0, LAMBDA c :
    IF address \in Addresses /\ frame.cmd = FIRMWARE_VERSION
    THEN [c EXCEPT !.hc[address] = TRUE] ELSE c)

\* M3LinearSmartStage._send that returns without reading the reply
stage_send_no_read(c, address, frame, sreply, reply) ==
    Bind(send(c, frame, address, sreply), LAMBDA c1 :
    IF c1.st # "ok" THEN c1 ELSE Released(c1, address, frame))

\* M3LinearSmartStage._send
stage_send(c, address, frame, sreply, reply) ==
    Bind(send(c, frame, address, sreply), LAMBDA c1 :
    IF c1.st # "ok" THEN c1 ELSE
    Bind(read(Released(c1, address, frame), address, reply, sreply),
         LAMBDA c2 :
    IF c2.st # "ok" THEN c2 ELSE
    Bind(parse_reply(c2), LAMBDA c3 :
    IF c3.st # "ok" THEN c3 ELSE Established(c3, address, frame))))

\* M3LinearSmartStage.get_firmware_version
get_firmware_version(c, address, sreply, reply) ==
    stage_send(c, address, StageFrame(FIRMWARE_VERSION, ""), sreply, reply)

\* M3LinearSmartStage.close
close(c, address, sreply, reply) ==
    stage_send(c, address, StageFrame(RELEASE_HOST_CONTROL, ""), sreply,
               reply)

\* M3LinearSmartStage.halt
halt(c, address, sreply, reply) ==
    stage_send(c, address, StageFrame(HALT, ""), sreply, reply)

\* M3LinearSmartStage.set_drive_mode
set_drive_mode(c, address, drive_mode, sreply, reply) ==
    stage_send(c, address, StageFrame(DRIVE_MODE, drive_mode), sreply, reply)

\* M3LinearSmartStage.__init__ with the two commands in the other order
M3LinearSmartStage_init_mode_first(c, address, sreply, reply1, reply2) ==
    Bind(set_drive_mode(c, address, CLOSED_LOOP, sreply, reply1), LAMBDA c1 :
    IF c1.st # "ok" THEN c1
    ELSE get_firmware_version(c1, address, sreply, reply2))

\* M3LinearSmartStage.__init__
M3LinearSmartStage_init(c, address, sreply, reply1, reply2) ==
    Bind(get_firmware_version(c, address, sreply, reply1), LAMBDA c1 :
    IF c1.st # "ok" THEN c1 ELSE
    Bind(set_drive_mode(c1, address, CLOSED_LOOP, sreply, reply2),
         LAMBDA c2 :
    IF c2.st # "ok" THEN c2 ELSE [c2 EXCEPT !.at[address] = InitAttrs]))

\* ------------------------------------------------------------------------
\* MultiStage broadcasts (multistage.py)
\* ------------------------------------------------------------------------
\* one command to every axis in iteration order that goes on after a raise
RECURSIVE ForEachStage_continue(_, _, _, _)
ForEachStage_continue(c0, axes, frame, rps) ==
    Bind(c0, LAMBDA c :
    IF axes = <<>> THEN c
    ELSE Bind(stage_send([c EXCEPT !.st = "ok"], Head(axes), frame,
                         Head(rps)[1], Head(rps)[2]), LAMBDA c1 :
         ForEachStage_continue(
             IF c.st = "raise" /\ c1.st = "ok"
             THEN [c1 EXCEPT !.st = "raise", !.err = c.err] ELSE c1,
             Tail(axes), frame, Tail(rps))))

\* one command to every axis in iteration order; the first raise ends it
RECURSIVE ForEachStage(_, _, _, _)
ForEachStage(c0, axes, frame, rps) ==
    Bind(c0, LAMBDA c :
    IF axes = <<>> \/ c.st # "ok" THEN c
    ELSE ForEachStage(stage_send(c, Head(axes), frame, Head(rps)[1],
                                 Head(rps)[2]),
                      Tail(axes), frame, Tail(rps)))

\* dict.keys() and dict.values() of a dict kept as its items in order
Keys(d) == [i \in DOMAIN d |-> d[i].name]
Values(d) == [i \in DOMAIN d |-> d[i].val]

\* the axis names callers write: str.lower() maps 'X' to 'x', 'Y' to 'y'
AxisNames == {"x", "X", "y"}
lower(k) == CASE k = "X" -> "x" [] k = "Y" -> "y" [] OTHER -> k

\* d[k] = v on a dict: a present key keeps its place and takes the new
\* value, a new key goes last
DictPut(d, k, v) ==
    IF \E i \in DOMAIN d : d[i].name = k
    THEN [i \in DOMAIN d |->
            IF d[i].name = k THEN [name |-> k, val |-> v] ELSE d[i]]
    ELSE Append(d, [name |-> k, val |-> v])

\* d[k]
Lookup(d, k) == d[CHOOSE i \in DOMAIN d : d[i].name = k].val

\* {k.lower(): v for k, v in stages.items()}
RECURSIVE LowerKeys(_, _)
LowerKeys(d, kw) ==
    IF kw = <<>> THEN d
    ELSE LowerKeys(DictPut(d, lower(Head(kw).name), Head(kw).val), Tail(kw))

\* MultiStage.__init__: self.stages
MultiStage_init(kw) == LowerKeys(<<>>, kw)

\* MultiStage._set_drive_mode
MultiStage_set_drive_mode(c, drive_mode, rps) ==
    ForEachStage(c, Values(stages), StageFrame(DRIVE_MODE, drive_mode), rps)

\* MultiStage.set_open_loop_mode / set_closed_loop_mode:
\* self._set_drive_mode(**axes_dict) hands the axis names as keywords to
\* the decorated _set_drive_mode(self, drive_mode).  The names are the
\* coordinator's own, so axis_check lets them through, and the method, which
\* takes none of them, raises TypeError before its body runs
MultiStage_set_mode(c, drive_mode, rps) == Raise(c, "TypeError")

\* a halt that reaches the first axis only
MultiStage_halt_first(c, rps) ==
    ForEachStage(c, SubSeq(Values(stages), 1, 1), StageFrame(HALT, ""), rps)

\* MultiStage.halt
MultiStage_halt(c, rps) ==
    ForEachStage(c, Values(stages), StageFrame(HALT, ""), rps)

\* MultiStage.close
MultiStage_close(c, rps) ==
    ForEachStage(c, Values(stages), StageFrame(RELEASE_HOST_CONTROL, ""),
                 rps)

\* ------------------------------------------------------------------------
\* Public operations of the axis controller and of the coordinator
\* ------------------------------------------------------------------------
\* stage = M3LinearSmartStage(interface, address)
NewStage ==
    /\ ifaceUp /\ ~blocked
    /\ \E address \in Addresses, rp \in AxisReplies, reply2 \in StageReplies :
         /\ ~axisUp[address]
         /\ rp[2] # "ok" => reply2 = "timeout"
         /\ \E c \in {M3LinearSmartStage_init(Ctx0, address, rp[1], rp[2],
                                              reply2)} :
                /\ Finish("NewStage", address, NoFrame, c)
                /\ axisUp' = [axisUp EXCEPT ![address] = (c.st = "ok")]
    /\ UNCHANGED <<kind, ifaceUp, stages, mvars>>

\* stage.get_firmware_version()
GetFirmwareVersion ==
    /\ ifaceUp /\ ~blocked
    /\ \E address \in Addresses, rp \in AxisReplies :
         /\ axisUp[address]
         /\ \E c \in {get_firmware_version(Ctx0, address, rp[1], rp[2])} :
               Finish("get_firmware_version", address, NoFrame, c)
    /\ UNCHANGED <<kind, ifaceUp, axisUp, stages, mvars>>

\* stage.close()
Close ==
    /\ ifaceUp /\ ~blocked
    /\ \E address \in Addresses, rp \in AxisReplies :
         /\ axisUp[address]
         /\ \E c \in {close(Ctx0, address, rp[1], rp[2])} :
               Finish("close", address, NoFrame, c)
    /\ UNCHANGED <<kind, ifaceUp, axisUp, stages, mvars>>

\* stage.halt()
Halt ==
    /\ ifaceUp /\ ~blocked
    /\ \E address \in Addresses, rp \in AxisReplies :
         /\ axisUp[address]
         /\ \E c \in {halt(Ctx0, address, rp[1], rp[2])} :
               Finish("halt", address, NoFrame, c)
    /\ UNCHANGED <<kind, ifaceUp, axisUp, stages, mvars>>

\* stage.set_drive_mode(drive_mode)
SetDriveMode ==
    /\ ifaceUp /\ ~blocked
    /\ \E address \in Addresses, drive_mode \in {OPEN_LOOP, CLOSED_LOOP},
          rp \in AxisReplies :
         /\ axisUp[address]
         /\ \E c \in {set_drive_mode(Ctx0, address, drive_mode, rp[1],
                                     rp[2])} :
               Finish("set_drive_mode", address, NoFrame, c)
    /\ UNCHANGED <<kind, ifaceUp, axisUp, stages, mvars>>

\* the orders in which the constructed controllers can be handed over
StageOrders ==
    {q \in UNION {[1..n -> Addresses] : n \in 1..Cardinality(Addresses)} :
        /\ \A i \in DOMAIN q : axisUp[q[i]]
        /\ \A i, j \in DOMAIN q : i # j => q[i] # q[j]}

\* the names the controllers are handed over under: one axis, two axes,
\* two names that differ in case only
StageNameLists ==
    {<<"x">>, <<"X">>, <<"x", "y">>, <<"x", "X">>, <<"X", "x">>}

\* the keyword arguments of MultiStage(...): names as written, each with
\* one of the constructed controllers
StageKwargs ==
    UNION {{[i \in DOMAIN q |-> [name |-> names[i], val |-> q[i]]] :
               names \in {l \in StageNameLists : Len(l) = Len(q)}} :
           q \in StageOrders}

\* stages = MultiStage(x=x_stage, y=y_stage)
NewMultiStage ==
    /\ ~blocked /\ stages = <<>>
    /\ \E kw \in StageKwargs :
         /\ stages' = MultiStage_init(kw)
         /\ call' = [NoCall EXCEPT !.op = "NewMultiStage",
                                   !.args = kw,
                                   !.pre_last = last_address,
                                   !.pre_conf = hub_confirmed]
    /\ opTrace' = <<>>
    /\ UNCHANGED <<kind, ifaceUp, last_address, hub_confirmed, outstanding,
                   host_control, axisUp, attrs, blocked, mvars, cvars>>

\* one answer per axis of the coordinator
ReplyVectors == [1..Len(stages) -> AxisReplies]

\* stages.set_open_loop_mode() / stages.set_closed_loop_mode()
MultiSetDriveMode ==
    /\ ~blocked /\ stages # <<>>
    /\ \E drive_mode \in {OPEN_LOOP, CLOSED_LOOP}, rps \in ReplyVectors :
         \E c \in {MultiStage_set_mode(Ctx0, drive_mode, rps)} :
             Finish("multi_set_drive_mode", None, NoFrame, c)
    /\ UNCHANGED <<kind, ifaceUp, axisUp, stages, mvars>>

\* stages.halt()
MultiHalt ==
    /\ ~blocked /\ stages # <<>>
    /\ \E rps \in ReplyVectors :
         \E c \in {MultiStage_halt(Ctx0, rps)} :
             Finish("multi_halt", None, NoFrame, c)
    /\ UNCHANGED <<kind, ifaceUp, axisUp, stages, mvars>>

\* stages.close()
MultiClose ==
    /\ ~blocked /\ stages # <<>>
    /\ \E rps \in ReplyVectors :
         \E c \in {MultiStage_close(Ctx0, rps)} :
             Finish("multi_close", None, NoFrame, c)
    /\ UNCHANGED <<kind, ifaceUp, axisUp, stages, mvars>>

Init == InitTransport

Next ==
    \/ NewInterface
    \/ NewStage
    \/ GetFirmwareVersion
    \/ Close
    \/ Halt
    \/ SetDriveMode
    \/ NewMultiStage
    \/ MultiSetDriveMode
    \/ MultiHalt
    \/ MultiClose

Spec == Init /\ [][Next]_vars

\* ------------------------------------------------------------------------
\* M3LinearSmartStage: commands with arguments (stage.py)
\* ------------------------------------------------------------------------
\* StageCmd opcodes
RUN == "04"
STEP_OPEN_LOOP == "05"
STEP_CLOSED_LOOP == "06"
OPEN_LOOP_SPEED == "09"
CLOSED_LOOP_SPEED == "40"
SOFT_LIMIT_VALUES == "46"
SOFT_LIMIT_STATES == "47"
TIME_INTERVAL_UNITS == "52"
BAUD_RATE == "54"

\* a table that gives 250000 the code of 115200
BaudRateCode_collapsed ==
    [r \in {19200, 38400, 57600, 115200, 250000} |->
        CASE r = 19200 -> <<"0", "0">> [] r = 38400 -> <<"0", "1">>
          [] r = 57600 -> <<"0", "2">> [] r = 115200 -> <<"0", "3">>
          [] r = 250000 -> <<"0", "3">>]

\* BaudRateCode
BaudRateCode ==
    [r \in {19200, 38400, 57600, 115200, 250000} |->
        CASE r = 19200 -> <<"0", "0">> [] r = 38400 -> <<"0", "1">>
          [] r = 57600 -> <<"0", "2">> [] r = 115200 -> <<"0", "3">>
          [] r = 250000 -> <<"0", "4">>]

\* Numbers beyond 31 bits are kept in two parts: [hi, lo] stands for
\* hi * 65536 + lo, with lo in 0..65535 and hi of either sign.  A length in
\* um is [hi, lo, e] and stands for hi * 65536 + lo + e/8; a number of ticks
\* before rounding is [hi, lo, frac] and stands for hi * 65536 + lo + frac/4.
Half == 65536

\* setpoint_um * TICKS_PER_UM (TICKS_PER_UM = 2.0)
times_ticks_per_um(p) ==
    LET lo2 == 2 * p.lo + (p.e \div 4)
    IN  [hi |-> 2 * p.hi + (lo2 \div Half), lo |-> lo2 % Half,
         frac |-> p.e % 4]

\* t + 1
Inc(t) ==
    IF t.lo = Half - 1 THEN [hi |-> t.hi + 1, lo |-> 0]
    ELSE [hi |-> t.hi, lo |-> t.lo + 1]

\* round(x) of Python 3: to the nearest integer, a tie to the even one
round(r) ==
    LET t == [hi |-> r.hi, lo |-> r.lo]
    IN  IF r.frac < 2 THEN t
        ELSE IF r.frac > 2 THEN Inc(t)
        ELSE IF t.lo % 2 = 0 THEN t ELSE Inc(t)

\* round(num / den) for small integers
round_ratio(num, den) ==
    LET q == num \div den
        r == num % den
    IN  IF 2 * r < den THEN q
        ELSE IF 2 * r > den THEN q + 1
        ELSE IF q % 2 = 0 THEN q ELSE q + 1

\* abs(x) of a length
abs(p) ==
    IF p.hi >= 0 THEN p
    ELSE IF p.e = 0
    THEN IF p.lo = 0 THEN [hi |-> -p.hi, lo |-> 0, e |-> 0]
         ELSE [hi |-> -p.hi - 1, lo |-> Half - p.lo, e |-> 0]
    ELSE [hi |-> -p.hi - 1, lo |-> Half - 1 - p.lo, e |-> 8 - p.e]

\* -0x80000000 <= t <= 0x7FFFFFFF with the upper end left out
fits_s32_exclusive(t) == -(Half \div 2) <= t.hi /\ t.hi < (Half \div 2) - 1

\* -0x80000000 <= t <= 0x7FFFFFFF
fits_s32(t) == -(Half \div 2) <= t.hi /\ t.hi <= (Half \div 2) - 1

\* t.bit_length() < 32
bit_length_below_32(t) ==
    \/ t.hi >= 0 /\ t.hi <= (Half \div 2) - 1
    \/ t.hi < 0 /\ (t.hi > -(Half \div 2) \/ (t.hi = -(Half \div 2) /\ t.lo > 0))

\* t & 0xFFFFFFFF
mask32(t) == [hi |-> t.hi % Half, lo |-> t.lo]

HexChars ==
    <<"0", "1", "2", "3", "4", "5", "6", "7", "8", "9",
      "a", "b", "c", "d", "e", "f">>

\* the hex digits of n >= 0, without leading zeros
RECURSIVE Digits(_)
Digits(n) ==
    IF n < 16 THEN <<HexChars[n + 1]>>
    ELSE Append(Digits(n \div 16), HexChars[(n % 16) + 1])

RECURSIVE ZeroPad(_, _)
ZeroPad(s, width) ==
    IF Len(s) >= width THEN s ELSE ZeroPad(<<"0">> \o s, width)

\* f"{n:0{width}x}": the sign counts in the width
format_x(n, width) ==
    IF n < 0 THEN <<"-">> \o ZeroPad(Digits(-n), width - 1)
    ELSE ZeroPad(Digits(n), width)

\* f"{t:08x}" that leaves out the leading zeros
format_08x_unpadded(t) ==
    IF t.hi = 0 THEN Digits(t.lo)
    ELSE Digits(t.hi) \o ZeroPad(Digits(t.lo), 4)

\* f"{t:08x}" of a two-part number t >= 0
format_08x(t) ==
    IF t.hi = 0 THEN ZeroPad(Digits(t.lo), 8)
    ELSE ZeroPad(Digits(t.hi) \o ZeroPad(Digits(t.lo), 4), 8)

\* str.upper() on the characters of a command
upper_char(ch) ==
    CASE ch = "a" -> "A" [] ch = "b" -> "B" [] ch = "c" -> "C"
      [] ch = "d" -> "D" [] ch = "e" -> "E" [] ch = "f" -> "F"
      [] OTHER -> ch

upper(s) == [i \in DOMAIN s |-> upper_char(s[i])]

RECURSIVE Str(_)
Str(s) == IF s = <<>> THEN "" ELSE Head(s) \o Str(Tail(s))

\* " ".join(args)
RECURSIVE join(_)
join(args) ==
    IF args = <<>> THEN ""
    ELSE IF Len(args) = 1 THEN Str(Head(args))
    ELSE Str(Head(args)) \o " " \o join(Tail(args))

\* M3LinearSmartStage._get_cmd_str: the command and its arguments in upper
\* case
get_cmd_str(cmd, args) ==
    StageFrame(cmd, join([i \in DOMAIN args |-> upper(args[i])]))

\* the characters of the frame on the wire: f"<{cmd}{args_str}>\r"
Wire(frame) ==
    "<" \o frame.cmd \o (IF frame.arg = "" THEN "" ELSE " " \o frame.arg)
        \o ">\r"

\* the value of one hex digit, in either case (bitstring's BitArray(hex=...))
hex_value(ch) ==
    CASE ch = "0" -> 0 [] ch = "1" -> 1 [] ch = "2" -> 2 [] ch = "3" -> 3
      [] ch = "4" -> 4 [] ch = "5" -> 5 [] ch = "6" -> 6 [] ch = "7" -> 7
      [] ch = "8" -> 8 [] ch = "9" -> 9
      [] ch \in {"a", "A"} -> 10 [] ch \in {"b", "B"} -> 11
      [] ch \in {"c", "C"} -> 12 [] ch \in {"d", "D"} -> 13
      [] ch \in {"e", "E"} -> 14 [] ch \in {"f", "F"} -> 15

\* the unsigned value of a run of hex digits
RECURSIVE hex_uint(_)
hex_uint(s) ==
    IF s = <<>> THEN 0
    ELSE 16 * hex_uint(SubSeq(s, 1, Len(s) - 1)) + hex_value(s[Len(s)])

\* unpack('int:32') that reads the field as unsigned
unpack_uint32(s) ==
    [hi |-> hex_uint(SubSeq(s, 1, 4)), lo |-> hex_uint(SubSeq(s, 5, 8))]

\* parse_reply's bit_array.unpack('int:32') on an 8-digit hex field: two's
\* complement
unpack_int32(s) ==
    LET hi == hex_uint(SubSeq(s, 1, 4))
    IN  [hi |-> IF hi >= Half \div 2 THEN hi - Half ELSE hi,
         lo |-> hex_uint(SubSeq(s, 5, 8))]

\* M3LinearSmartStage.move_to_target
move_to_target(c, address, setpoint_um, sreply, reply) ==
    LET ticks == round(times_ticks_per_um(setpoint_um))
    IN  IF ~fits_s32(ticks) THEN Raise(c, "AssertionError")
        ELSE stage_send(c, address,
                        get_cmd_str(MOVE_TO_TARGET,
                                    <<format_08x(mask32(ticks))>>),
                        sreply, reply)

\* M3LinearSmartStage.run; seconds is left out or a number of twentieths
\* of a second
run(c, address, direction, seconds, sreply, reply) ==
    IF direction = NEITHER THEN Raise(c, "AssertionError")
    ELSE IF seconds = Nothing
    THEN stage_send(c, address, get_cmd_str(RUN, <<(<<direction>>)>>),
                    sreply, reply)
    ELSE LET duration == round_ratio(The(seconds), 2)
         IN  IF ~(duration <= 255) THEN Raise(c, "AssertionError")
             ELSE stage_send(c, address,
                             get_cmd_str(RUN, <<(<<direction>>),
                                                format_x(duration, 4)>>),
                             sreply, reply)

\* a query that is sent on every call, whatever was remembered
get_time_interval_units_uncached(c0, address, sreply, reply, units) ==
    Bind(stage_send(c0, address, get_cmd_str("52", <<>>), sreply, reply),
         LAMBDA c1 :
         IF c1.st # "ok" THEN c1
         ELSE [c1 EXCEPT !.at[address].time_interval_us = Some(units),
                         !.ret = Some(units)])

\* M3LinearSmartStage.get_time_interval_units; units is the value the stage
\* reports, in us
get_time_interval_units(c0, address, sreply, reply, units) ==
    Bind(c0, LAMBDA c :
    IF c.at[address].time_interval_us # Nothing
    THEN [c EXCEPT !.ret = c.at[address].time_interval_us]
    ELSE Bind(stage_send(c, address, get_cmd_str(TIME_INTERVAL_UNITS, <<>>),
                         sreply, reply), LAMBDA c1 :
         IF c1.st # "ok" THEN c1
         ELSE [c1 EXCEPT !.at[address].time_interval_us = Some(units),
                         !.ret = Some(units)]))

\* M3LinearSmartStage.multi_time_step on numbers: the last line hands the
\* interval and the duration, which are numbers, to _get_cmd_str, whose
\* a.upper() raises AttributeError
multi_time_step(c, address, direction, step_count, step_interval_us, step_duration_us, sreply, reply, units) ==
    IF direction = NEITHER THEN Raise(c, "AssertionError")
    ELSE IF step_count = Nothing THEN Raise(c, "TypeError")
    ELSE IF ~(The(step_count) > 0) THEN Raise(c, "AssertionError")
    ELSE IF step_interval_us = Nothing \/ step_duration_us = Nothing
    THEN Raise(c, "AssertionError")
    ELSE IF ~(The(step_duration_us) < The(step_interval_us))
    THEN Raise(c, "AssertionError")
    ELSE Bind(get_time_interval_units(c, address, sreply, reply, units),
              LAMBDA c1 :
         IF c1.st # "ok" THEN c1
         ELSE LET u == The(c1.at[address].time_interval_us)
              IN  IF ~(/\ The(step_count) <= 65535
                       /\ The(step_interval_us) <= 65535 * u
                       /\ The(step_duration_us) <= 65535 * u)
                  THEN Raise(c1, "AssertionError")
                  ELSE Raise(c1, "AttributeError"))

\* M3LinearSmartStage._distance_step
distance_step_(c0, address, direction, step_size_um, sreply, reply) ==
    Bind(c0, LAMBDA c :
    IF direction = NEITHER /\ step_size_um = Nothing
    THEN Raise(c, "ValueError")
    ELSE IF step_size_um = Nothing
    THEN stage_send(c, address,
                    get_cmd_str(STEP_CLOSED_LOOP, <<(<<direction>>)>>),
                    sreply, reply)
    ELSE LET c1 == [c EXCEPT !.at[address].step_size_specified = TRUE]
             step_size_ticks ==
                 round(times_ticks_per_um(The(step_size_um)))
         IN  IF ~bit_length_below_32(step_size_ticks)
             THEN Raise(c1, "AssertionError")
             ELSE stage_send(c1, address,
                             get_cmd_str(STEP_CLOSED_LOOP,
                                         <<(<<direction>>),
                                           format_08x(step_size_ticks)>>),
                             sreply, reply))

\* a step that does not remember the direction of the size it was given
distance_step_forgetful(c0, address, step_size_um, sreply, reply) ==
    Bind(c0, LAMBDA c :
    IF step_size_um = Nothing
    THEN distance_step_(c, address, c.at[address].last_direction, Nothing,
                        sreply, reply)
    ELSE distance_step_(c, address,
                        IF The(step_size_um).hi >= 0 THEN FORWARD
                        ELSE BACKWARD,
                        Some(abs(The(step_size_um))), sreply, reply))

\* M3LinearSmartStage.distance_step
distance_step(c0, address, step_size_um, sreply, reply) ==
    Bind(c0, LAMBDA c :
    IF step_size_um = Nothing
    THEN distance_step_(c, address, c.at[address].last_direction, Nothing,
                        sreply, reply)
    ELSE LET direction ==
                 IF The(step_size_um).hi >= 0 THEN FORWARD ELSE BACKWARD
         IN  distance_step_([c EXCEPT !.at[address].last_direction =
                                          direction],
                            address, direction, Some(abs(The(step_size_um))),
                            sreply, reply))

\* M3LinearSmartStage.set_open_loop_speed; percent is a whole number
set_open_loop_speed(c, address, percent, sreply, reply) ==
    LET speed_byte == round_ratio(percent * 255, 100)
    IN  IF ~(1 < speed_byte /\ speed_byte < 256)
        THEN Raise(c, "AssertionError")
        ELSE stage_send(c, address,
                        get_cmd_str(OPEN_LOOP_SPEED,
                                    <<format_x(speed_byte, 2)>>),
                        sreply, reply)

\* len(bin(v)[2:]) <= 24: the sign of a negative v leaves a 'b' behind
fits_24_bits(v) ==
    IF v >= 0 THEN v < 256 * Half ELSE -v < 128 * Half

\* M3LinearSmartStage.set_closed_loop_speed_and_accel; the speeds are whole
\* numbers of um/s and the acceleration a whole number of mm/s^2.
\* ENC_RES_NM = 500 and INTERVAL = 1000 make a speed of v um/s a register
\* value of round(v * 64 / 125) for each interval counted.
set_closed_loop_speed_and_accel(c, address, vel, accel, min_vel, interval_count, sreply, reply) ==
    IF ~(vel > min_vel) THEN Raise(c, "AssertionError")
    ELSE IF accel = 0 \/ vel = 0 THEN Raise(c, "ZeroDivisionError")
    ELSE LET vel_counts == round_ratio(vel * 64 * interval_count, 125)
             cutoff_counts == round_ratio(min_vel * 64 * interval_count, 125)
             accel_counts ==
                 round_ratio(vel_counts * accel * interval_count, vel)
         IN  IF ~(/\ fits_24_bits(vel_counts)
                  /\ fits_24_bits(cutoff_counts)
                  /\ fits_24_bits(accel_counts))
             THEN Raise(c, "AssertionError")
             ELSE stage_send(c, address,
                             get_cmd_str(CLOSED_LOOP_SPEED,
                                         <<format_x(vel_counts, 6),
                                           format_x(cutoff_counts, 6),
                                           format_x(accel_counts, 6),
                                           format_x(interval_count, 4)>>),
                             sreply, reply)

\* M3LinearSmartStage.set_soft_limits; the margin is a number of eighths of
\* a um.  1e3 / ENC_RES_NM is 2, the factor of times_ticks_per_um.
set_soft_limits(c, address, min_limit_um, max_limit_um, margin, sreply, reply) ==
    LET min_value == round(times_ticks_per_um(min_limit_um))
        max_value == round(times_ticks_per_um(max_limit_um))
        margin_value == round_ratio(margin, 4)
    IN  IF ~fits_s32(min_value) \/ ~fits_s32(max_value)
           \/ ~(0 <= margin_value /\ margin_value <= 65535)
        THEN Raise(c, "AssertionError")
        ELSE stage_send(c, address,
                        get_cmd_str(SOFT_LIMIT_VALUES,
                                    <<format_08x(mask32(max_value)),
                                      format_08x(mask32(min_value)),
                                      format_x(margin_value, 4)>>),
                        sreply, reply)

\* M3LinearSmartStage.set_baud_rate
set_baud_rate(c, address, baud_rate, sreply, reply) ==
    IF baud_rate \notin DOMAIN BaudRateCode THEN Raise(c, "AssertionError")
    ELSE stage_send(c, address,
                    get_cmd_str(BAUD_RATE, <<BaudRateCode[baud_rate]>>),
                    sreply, reply)

\* M3LinearSmartStage.set_distance_step_size
set_distance_step_size(c0, address, step_size_um, sreply, reply) ==
    Bind(c0, LAMBDA c :
    LET direction == IF step_size_um.hi >= 0 THEN FORWARD ELSE BACKWARD
    IN  distance_step_([c EXCEPT !.at[address].last_direction = direction],
                       address, NEITHER, Some(abs(step_size_um)), sreply,
                       reply))

\* M3LinearSmartStage._set_soft_limit_state
set_soft_limit_state_(c, address, soft_limits_enabled, sreply, reply) ==
    stage_send(c, address,
               get_cmd_str(SOFT_LIMIT_STATES,
                           <<format_x(IF soft_limits_enabled THEN 1 ELSE 0,
                                      4)>>),
               sreply, reply)

\* M3LinearSmartStage.enable_soft_limits
enable_soft_limits(c, address, sreply, reply) ==
    set_soft_limit_state_(c, address, TRUE, sreply, reply)

\* M3LinearSmartStage.disable_soft_limits
disable_soft_limits(c, address, sreply, reply) ==
    set_soft_limit_state_(c, address, FALSE, sreply, reply)

\* BaudRateCode.inverse[f"{br_code:02x}"]: the rate of a code the device
\* reports, KeyError for a code of no rate
BaudRateInverse(c, br_code) ==
    LET code == format_x(br_code, 2)
        rates == {r \in DOMAIN BaudRateCode : BaudRateCode[r] = code}
    IN  IF rates = {} THEN Raise(c, "KeyError")
        ELSE [c EXCEPT !.ret = Some(CHOOSE r \in rates : TRUE)]

\* M3LinearSmartStage.get_baud_rate; br_code is the uint:8 field of the
\* reply
get_baud_rate(c, address, sreply, reply, br_code) ==
    Bind(stage_send(c, address, get_cmd_str(BAUD_RATE, <<>>), sreply, reply),
         LAMBDA c1 :
    IF c1.st # "ok" THEN c1 ELSE BaudRateInverse(c1, br_code))

\* M3USBInterface.set_baud_rate
M3USBInterface_set_baud_rate(c, baud_rate, reply) ==
    IF baud_rate \notin DOMAIN BaudRateCode THEN Raise(c, "AssertionError")
    ELSE Bind(send(c, TrFrame(BAUD_RATE,
                              "1 " \o Str(BaudRateCode[baud_rate])),
                   None, "timeout"), LAMBDA c1 :
         IF c1.st # "ok" THEN c1 ELSE read(c1, None, reply, "timeout"))

\* M3USBInterface.get_baud_rate
M3USBInterface_get_baud_rate(c, reply, br_code) ==
    Bind(send(c, TrFrame(BAUD_RATE, "1"), None, "timeout"), LAMBDA c1 :
    IF c1.st # "ok" THEN c1 ELSE
    Bind(read(c1, None, reply, "timeout"), LAMBDA c2 :
    IF c2.st # "ok" THEN c2 ELSE
    Bind(parse_tr_reply(c2), LAMBDA c3 :
    IF c3.st # "ok" THEN c3 ELSE BaudRateInverse(c3, br_code))))

\* ------------------------------------------------------------------------
\* One constructed axis controller and its commands with arguments
\* ------------------------------------------------------------------------
\* a length of whole um
Um(n) == [hi |-> n \div Half, lo |-> n % Half, e |-> 0]

\* the lengths handed over, in um: 0, 0.25, -0.5, 7500.0, and the lengths
\* on both sides of the two ends of the 32-bit tick range, 1/8 um apart
Lengths ==
    {Um(0), Um(7500), [hi |-> 0, lo |-> 0, e |-> 2],
     [hi |-> -1, lo |-> 65535, e |-> 4],
     [hi |-> 16384, lo |-> 0, e |-> 0], [hi |-> -16384, lo |-> 0, e |-> 0]}
        \cup {[hi |-> h, lo |-> 65535, e |-> e] :
                 h \in {-16385, 16383}, e \in 4..7}

\* the step sizes handed over, in um: 7500.0, -0.5, 2^30 - 1/2, which is
\* the largest that fits, and -2^30
StepLengths ==
    {Um(7500), [hi |-> -1, lo |-> 65535, e |-> 4],
     [hi |-> 16383, lo |-> 65535, e |-> 4],
     [hi |-> -16384, lo |-> 0, e |-> 0]}

\* the codes a device reports as its baud rate: those of 19200, 115200 and
\* 250000, and one of no rate
ReportedBaudCodes == {0, 3, 4, 5}

\* (min_limit_um, max_limit_um, margin) of set_soft_limits, the margin in
\* eighths of a um
SoftLimitArgs ==
    {<<Um(0), Um(7500), 0>>, <<Um(-7500), Um(7500), 8>>,
     <<[hi |-> -16384, lo |-> 0, e |-> 0],
       [hi |-> 16383, lo |-> 65535, e |-> 4], 262140>>,
     <<[hi |-> -16385, lo |-> 65535, e |-> 5], Um(7500), 0>>,
     <<Um(0), [hi |-> 16384, lo |-> 0, e |-> 0], 0>>,
     <<Um(0), Um(7500), -8>>, <<Um(0), Um(7500), 262144>>}

\* (direction, seconds) of run(), the seconds in twentieths of a second:
\* left out, -1.0 s, 1.0 s, 25.5 s, 25.55 s, 25.6 s
RunCalls ==
    {<<NEITHER, Nothing>>, <<FORWARD, Nothing>>, <<BACKWARD, Some(20)>>,
     <<NEITHER, Some(20)>>, <<FORWARD, Some(510)>>, <<FORWARD, Some(511)>>,
     <<BACKWARD, Some(512)>>, <<FORWARD, Some(-20)>>}

\* (direction, step_count, step_interval_us, step_duration_us) of
\* multi_time_step()
MultiTimeStepArgs ==
    {<<NEITHER, Some(10), Some(100), Some(50)>>,
     <<FORWARD, Nothing, Nothing, Nothing>>,
     <<FORWARD, Some(0), Some(100), Some(50)>>,
     <<FORWARD, Some(10), Nothing, Some(50)>>,
     <<FORWARD, Some(10), Some(100), Some(200)>>,
     <<FORWARD, Some(10), Some(100), Some(50)>>,
     <<FORWARD, Some(70000), Some(100), Some(50)>>,
     <<BACKWARD, Some(10), Some(7000000), Some(50)>>}

\* (vel, accel, min_vel, interval_count) of
\* set_closed_loop_speed_and_accel()
SpeedArgs ==
    {<<1000, 125, 0, 1>>, <<1000, 125, 125, 1>>, <<125, 125, 125, 1>>,
     <<32768000, 125, 0, 1>>, <<1000, 0, 0, 1>>}

\* the time interval unit a stage reports to <52>, in us
TimeUnits == {1, 100}

\* what the one selected stage answers to a command
CommandReplies == {<<"1", r>> : r \in StageReplies}

\* the address of the controller the commands go to
StageAddresses == {a \in Addresses : axisUp[a]}

\* the transport and the controller after a command called with args that
\* ran from Ctx0 to c
StageFinish(op, address, args, c) ==
    /\ FinishWith(op, address, NoFrame, args, c)
    /\ UNCHANGED <<kind, ifaceUp, axisUp, stages, mvars>>

\* stage.move_to_target(setpoint_um)
MoveToTarget ==
    /\ ifaceUp /\ ~blocked
    /\ \E address \in StageAddresses, rp \in CommandReplies,
          setpoint_um \in Lengths :
         \E c \in {move_to_target(Ctx0, address, setpoint_um, rp[1], rp[2])} :
             StageFinish("move_to_target", address, <<setpoint_um>>, c)

\* stage.run(direction, seconds)
Run ==
    /\ ifaceUp /\ ~blocked
    /\ \E address \in StageAddresses, rp \in CommandReplies,
          args \in RunCalls :
         \E c \in {run(Ctx0, address, args[1], args[2], rp[1], rp[2])} :
             StageFinish("run", address, args, c)

\* stage.multi_time_step(direction, step_count, step_interval_us,
\* step_duration_us)
MultiTimeStep ==
    /\ ifaceUp /\ ~blocked
    /\ \E address \in StageAddresses, rp \in CommandReplies,
          args \in MultiTimeStepArgs, units \in TimeUnits :
         \E c \in {multi_time_step(Ctx0, address, args[1], args[2], args[3],
                                   args[4], rp[1], rp[2], units)} :
             StageFinish("multi_time_step", address, args, c)

\* stage.distance_step(step_size_um)
DistanceStep ==
    /\ ifaceUp /\ ~blocked
    /\ \E address \in StageAddresses, rp \in CommandReplies,
          step_size_um \in {Nothing} \cup {Some(p) : p \in StepLengths} :
         \E c \in {distance_step(Ctx0, address, step_size_um, rp[1],
                                 rp[2])} :
             StageFinish("distance_step", address, <<step_size_um>>, c)

\* stage.set_open_loop_speed(percent)
SetOpenLoopSpeed ==
    /\ ifaceUp /\ ~blocked
    /\ \E address \in StageAddresses, rp \in CommandReplies,
          percent \in {0, 1, 50, 100, 101} :
         \E c \in {set_open_loop_speed(Ctx0, address, percent, rp[1],
                                       rp[2])} :
             StageFinish("set_open_loop_speed", address, <<percent>>, c)

\* stage.set_closed_loop_speed_and_accel(vel, accel, min_vel,
\* interval_count)
SetClosedLoopSpeedAndAccel ==
    /\ ifaceUp /\ ~blocked
    /\ \E address \in StageAddresses, rp \in CommandReplies,
          args \in SpeedArgs :
         \E c \in {set_closed_loop_speed_and_accel(
                       Ctx0, address, args[1], args[2], args[3], args[4],
                       rp[1], rp[2])} :
             StageFinish("set_closed_loop_speed_and_accel", address, args, c)

\* stage.set_soft_limits(min_limit_um, max_limit_um, margin)
SetSoftLimits ==
    /\ ifaceUp /\ ~blocked
    /\ \E address \in StageAddresses, rp \in CommandReplies,
          args \in SoftLimitArgs :
         \E c \in {set_soft_limits(Ctx0, address, args[1], args[2], args[3],
                                   rp[1], rp[2])} :
             StageFinish("set_soft_limits", address, args, c)

\* stage.set_baud_rate(baud_rate)
SetBaudRate ==
    /\ ifaceUp /\ ~blocked
    /\ \E address \in StageAddresses, rp \in CommandReplies,
          baud_rate \in {9600, 19200, 115200, 250000} :
         \E c \in {set_baud_rate(Ctx0, address, baud_rate, rp[1], rp[2])} :
             StageFinish("set_baud_rate", address, <<baud_rate>>, c)

\* stage.set_distance_step_size(step_size_um)
SetDistanceStepSize ==
    /\ ifaceUp /\ ~blocked
    /\ \E address \in StageAddresses, rp \in CommandReplies,
          step_size_um \in StepLengths :
         \E c \in {set_distance_step_size(Ctx0, address, step_size_um,
                                          rp[1], rp[2])} :
             StageFinish("set_distance_step_size", address,
                         <<step_size_um>>, c)

\* stage.get_time_interval_units()
GetTimeIntervalUnits ==
    /\ ifaceUp /\ ~blocked
    /\ \E address \in StageAddresses, rp \in CommandReplies,
          units \in TimeUnits :
         \E c \in {get_time_interval_units(Ctx0, address, rp[1], rp[2],
                                           units)} :
             StageFinish("get_time_interval_units", address, <<>>, c)

\* stage.enable_soft_limits() / stage.disable_soft_limits()
SetSoftLimitState ==
    /\ ifaceUp /\ ~blocked
    /\ \E address \in StageAddresses, rp \in CommandReplies,
          soft_limits_enabled \in BOOLEAN :
         \E c \in {IF soft_limits_enabled
                   THEN enable_soft_limits(Ctx0, address, rp[1], rp[2])
                   ELSE disable_soft_limits(Ctx0, address, rp[1], rp[2])} :
             StageFinish("set_soft_limit_state", address,
                         <<soft_limits_enabled>>, c)

\* stage.get_baud_rate()
GetBaudRate ==
    /\ ifaceUp /\ ~blocked
    /\ \E address \in StageAddresses, rp \in CommandReplies,
          br_code \in ReportedBaudCodes :
         \E c \in {get_baud_rate(Ctx0, address, rp[1], rp[2], br_code)} :
             StageFinish("get_baud_rate", address, <<br_code>>, c)

\* interface.set_baud_rate(baud_rate) of an M3USBInterface
TrSetBaudRate ==
    /\ ifaceUp /\ ~blocked /\ kind # "poe"
    /\ \E reply \in TrReplies, baud_rate \in {9600, 19200, 115200, 250000} :
         \E c \in {M3USBInterface_set_baud_rate(Ctx0, baud_rate, reply)} :
             StageFinish("tr_set_baud_rate", None, <<baud_rate>>, c)

\* interface.get_baud_rate() of an M3USBInterface
TrGetBaudRate ==
    /\ ifaceUp /\ ~blocked /\ kind # "poe"
    /\ \E reply \in TrReplies, br_code \in ReportedBaudCodes :
         \E c \in {M3USBInterface_get_baud_rate(Ctx0, reply, br_code)} :
             StageFinish("tr_get_baud_rate", None, <<br_code>>, c)

\* one controller, at '01', constructed over an interface that is up
InitStage ==
    /\ InitMove
    /\ kind \in Kinds
    /\ ifaceUp = TRUE
    /\ last_address = "01"
    /\ hub_confirmed = "01"
    /\ outstanding = 0
    /\ host_control = [a \in Addresses |-> a = "01"]
    /\ axisUp = [a \in Addresses |-> a = "01"]
    /\ attrs = [a \in Addresses |-> InitAttrs]
    /\ stages = <<>>
    /\ opTrace = <<>>
    /\ call = NoCall
    /\ blocked = FALSE

NextStage ==
    \/ MoveToTarget
    \/ Run
    \/ MultiTimeStep
    \/ DistanceStep
    \/ SetOpenLoopSpeed
    \/ SetClosedLoopSpeedAndAccel
    \/ SetSoftLimits
    \/ SetBaudRate
    \/ SetDistanceStepSize
    \/ GetTimeIntervalUnits
    \/ SetSoftLimitState
    \/ GetBaudRate
    \/ TrSetBaudRate
    \/ TrGetBaudRate

SpecStage == InitStage /\ [][NextStage]_vars

\* ------------------------------------------------------------------------
\* Replies token by token (device_codes.py, stage.py)
\* ------------------------------------------------------------------------
\* DriveMode.MODE_QUERY
MODE_QUERY == "R"

\* the StageCmd opcodes that occur in the replies below
StageCmds ==
    {HALT, OPEN_LOOP_SPEED, DRIVE_MODE, ILLEGAL_COMMAND_FORMAT,
     ILLEGAL_COMMAND, SOFT_LIMIT_STATES, BAUD_RATE}

\* StageReplyEncoding, the entries for those opcodes: the width of every
\* field in hex digits ("uint:4, uint:16" is 1 and 4)
StageReplyEncoding ==
    [cmd \in {OPEN_LOOP_SPEED, DRIVE_MODE, SOFT_LIMIT_STATES, BAUD_RATE} |->
        CASE cmd = OPEN_LOOP_SPEED -> <<2>>
          [] cmd = DRIVE_MODE -> <<1, 4>>
          [] cmd = SOFT_LIMIT_STATES -> <<1>>
          [] cmd = BAUD_RATE -> <<1, 2>>]

\* the tokens run together, as BitArray(hex=...) reads them
RECURSIVE Concat(_)
Concat(tokens) ==
    IF tokens = <<>> THEN <<>> ELSE Head(tokens) \o Concat(Tail(tokens))

\* bit_array.unpack(...): one unsigned number per field, read from the
\* front; what is left over is not looked at
RECURSIVE unpack(_, _)
unpack(digits, widths) ==
    IF widths = <<>> THEN <<>>
    ELSE <<hex_uint(SubSeq(digits, 1, Head(widths)))>>
             \o unpack(SubSeq(digits, Head(widths) + 1, Len(digits)),
                       Tail(widths))

RECURSIVE Sum(_)
Sum(ws) == IF ws = <<>> THEN 0 ELSE Head(ws) + Sum(Tail(ws))

IsHex(ch) ==
    ch \in {"0", "1", "2", "3", "4", "5", "6", "7", "8", "9", "a", "b", "c",
            "d", "e", "f", "A", "B", "C", "D", "E", "F"}

\* the result of a parse: the tuple returned, or the error raised
Parsed(val) == [err |-> "-", val |-> val]
Failed(err) == [err |-> err, val |-> <<>>]

\* parse_reply that treats illegal-command with a payload as any other
\* reply with a payload
parse_stage_reply_payload(reply) ==
    LET cmd == reply[1]
        rest == Tail(reply)
    IN  IF cmd \notin StageCmds THEN Failed("ValueError")
        ELSE IF rest = <<>> THEN Parsed(<<cmd>>)
        ELSE Failed("KeyError")

\* parse_stage_reply: parse_reply with StageReplyEncoding.  A reply is the
\* opcode followed by the words that a space separates, each word the
\* sequence of its characters.
parse_stage_reply(reply) ==
    LET cmd == reply[1]
        rest == Tail(reply)
    IN  IF cmd \notin StageCmds THEN Failed("ValueError")
        ELSE IF rest = <<>> THEN Parsed(<<cmd>>)
        ELSE IF cmd = ILLEGAL_COMMAND THEN Parsed(<<cmd>>)
        ELSE IF cmd \notin DOMAIN StageReplyEncoding THEN Failed("KeyError")
        ELSE LET widths == StageReplyEncoding[cmd]
                 int_count == Len(widths)
                 digits == Concat(Take(rest, int_count))
                 unparsed == IF Len(rest) > int_count
                             THEN <<SubSeq(rest, int_count + 1, Len(rest))>>
                             ELSE <<>>
             IN  IF \E i \in DOMAIN digits : ~IsHex(digits[i])
                 THEN Failed("CreationError")
                 ELSE IF Len(digits) < Sum(widths) THEN Failed("ReadError")
                 ELSE Parsed(<<cmd>> \o unpack(digits, widths) \o unparsed)

\* M3LinearSmartStage._parse_reply on the words of a reply
parse_reply_(c, reply) ==
    LET r == parse_stage_reply(reply)
    IN  IF r.err # "-" THEN Raise(c, r.err)
        ELSE IF Len(r.val) = 1 /\ r.val[1] = ILLEGAL_COMMAND
        THEN Raise(c, "IllegalCommandError")
        ELSE IF Len(r.val) = 1 /\ r.val[1] = ILLEGAL_COMMAND_FORMAT
        THEN Raise(c, "IllegalCommandFormatError")
        ELSE [c EXCEPT !.ret = Some(r.val)]

\* M3LinearSmartStage.get_drive_mode; words is the reply the stage gives
\* when it answers: "_, mode = ..." takes a tuple of two, and
\* DriveMode(f"{mode:x}") a value of the enum
get_drive_mode(c, address, sreply, reply, words) ==
    Bind(stage_send(c, address, get_cmd_str(DRIVE_MODE, <<<<MODE_QUERY>>>>),
                    sreply, reply), LAMBDA c1 :
    IF c1.st # "ok" THEN c1 ELSE
    Bind(parse_reply_(c1, words), LAMBDA c2 :
    IF c2.st # "ok" THEN c2
    ELSE IF Len(The(c2.ret)) # 2
    THEN Raise([c2 EXCEPT !.ret = Nothing], "ValueError")
    ELSE IF Str(Digits(The(c2.ret)[2])) \notin {OPEN_LOOP, CLOSED_LOOP}
    THEN Raise([c2 EXCEPT !.ret = Nothing], "ValueError")
    ELSE [c2 EXCEPT !.ret = Some(Str(Digits(The(c2.ret)[2])))]))

\* the words after the opcode that the replies below carry
Payloads ==
    {<<>>, <<<<"0">>>>, <<<<"1">>>>, <<<<"0", "3">>>>,
     <<<<"1">>, <<"0", "0", "0", "0">>>>,
     <<<<"0">>, <<"0", "0", "0", "0">>>>,
     <<<<"1">>, <<"0", "3">>>>,
     <<<<"1">>, <<"0", "3">>, <<"x">>>>,
     <<<<"x">>>>}

\* the replies a stage may give, and some it should not
StageReplyWords ==
    {<<cmd>> \o p : cmd \in StageCmds \cup {"", "ZZ"}, p \in Payloads}

\* what a stage answers to the drive-mode query when it answers with its
\* opcode
DriveModeReplies == {<<DRIVE_MODE>> \o p : p \in Payloads}

\* stage._parse_reply(reply)
ParseReply ==
    /\ ~blocked
    /\ \E reply \in StageReplyWords :
         \E c \in {parse_reply_(Ctx0, reply)} :
             StageFinish("_parse_reply", None, <<reply>>, c)

\* stage.get_drive_mode()
GetDriveMode ==
    /\ ifaceUp /\ ~blocked
    /\ \E address \in StageAddresses, rp \in CommandReplies,
          words \in DriveModeReplies :
         \E c \in {get_drive_mode(Ctx0, address, rp[1], rp[2], words)} :
             StageFinish("get_drive_mode", address, <<words>>, c)

\* stage.set_drive_mode(drive_mode)
SetStageDriveMode ==
    /\ ifaceUp /\ ~blocked
    /\ \E address \in StageAddresses, rp \in CommandReplies,
          drive_mode \in {OPEN_LOOP, CLOSED_LOOP} :
         \E c \in {set_drive_mode(Ctx0, address, drive_mode, rp[1], rp[2])} :
             StageFinish("set_drive_mode", address, <<drive_mode>>, c)

NextReply ==
    \/ ParseReply
    \/ GetDriveMode
    \/ SetStageDriveMode

SpecReply == InitStage /\ [][NextReply]_vars

\* two controllers, at '01' and '02', constructed over one USB interface on
\* a pyserial port
InitSteps ==
    /\ InitMove
    /\ kind = "pyserial"
    /\ ifaceUp = TRUE
    /\ last_address = "02"
    /\ hub_confirmed = "02"
    /\ outstanding = 0
    /\ host_control = [a \in Addresses |-> TRUE]
    /\ axisUp = [a \in Addresses |-> TRUE]
    /\ attrs = [a \in Addresses |-> InitAttrs]
    /\ stages = <<>>
    /\ opTrace = <<>>
    /\ call = NoCall
    /\ blocked = FALSE

\* the step commands and the query they share, on either controller
NextSteps ==
    \/ DistanceStep
    \/ SetDistanceStepSize
    \/ GetTimeIntervalUnits
    \/ MultiTimeStep

SpecSteps == InitSteps /\ [][NextSteps]_vars

\* ------------------------------------------------------------------------
\* MultiStage.move_absolute and MultiStage.move_for_time, one step of the
\* call at a time
\* ------------------------------------------------------------------------
\* MultiStage.MOVE_TIMEOUT_S, in seconds
MOVE_TIMEOUT_S == 15

\* the seconds by which the clock is seen to move on between two readings
ClockStep == 5

\* the latest clock reading at which a call is started
MaxStart == 5

\* the clock stops being advanced here, past every running call's timeout
MaxClock == MaxStart + MOVE_TIMEOUT_S + ClockStep

\* StateBit offsets
DIRECTION == 1
RUNNING == 2
TIMED_RUN == 5
MODE == 11
ON_TARGET == 18
STALLED == 23

\* bit k of the state word w
Bit(w, k) == (w \div (2 ^ k)) % 2 = 1

\* the state words a stage reports: every combination of the flags the
\* polling loops look at
StateWords ==
    {r * (2 ^ RUNNING) + tr * (2 ^ TIMED_RUN) + t * (2 ^ ON_TARGET)
        + st * (2 ^ STALLED) :
        r \in {0, 1}, tr \in {0, 1}, t \in {0, 1}, st \in {0, 1}}

\* the state words met by a call: the flags its polling loop looks at in
\* every combination, the flag only the other loop looks at clear
ReportedWords(op) ==
    {w \in StateWords :
        /\ op = "move_absolute" => ~Bit(w, TIMED_RUN)
        /\ op = "move_for_time" => ~Bit(w, ON_TARGET)}

\* Python's True and False
PyBool(b) == IF b THEN "True" ELSE "False"

\* bool(v): False is false; an Enum member, and a str-valued one with a
\* non-empty value, is true
bool(v) == v # "False"

\* M3LinearSmartStage._parse_state: flag k is bit k, least significant
\* first; the MODE and DIRECTION flags are then replaced by a Mode and a
\* Direction member
parse_state(state) ==
    [k \in 0..23 |->
        IF k = MODE
        THEN IF Bit(state, k) THEN "Mode.BURST" ELSE "Mode.AMPLITUDE"
        ELSE IF k = DIRECTION
        THEN IF Bit(state, k) THEN "Direction.FORWARD"
             ELSE "Direction.BACKWARD"
        ELSE PyBool(Bit(state, k))]

\* M3LinearSmartStage.get_closed_loop_state_and_position
get_closed_loop_state_and_position(c, address, sreply, reply) ==
    stage_send(c, address, StageFrame(CLOSED_LOOP_STATE, ""), sreply, reply)

Range(q) == {q[i] : i \in DOMAIN q}

\* the decision of one poll iteration with the success test made first
poll_decision_success_first(st, axes) ==
    IF \A x \in Range(axes) : ~bool(st[x][RUNNING]) /\ bool(st[x][ON_TARGET])
    THEN "return"
    ELSE IF \E x \in Range(axes) : bool(st[x][STALLED]) THEN "stalled"
    ELSE "sleep"

\* the decision of one poll iteration that is content with one axis on
\* target
poll_decision_any_on_target(st, axes) ==
    IF \E x \in Range(axes) : bool(st[x][STALLED]) THEN "stalled"
    ELSE IF \E x \in Range(axes) : ~bool(st[x][RUNNING]) /\ bool(st[x][ON_TARGET])
    THEN "return"
    ELSE "sleep"

\* the decision of one poll iteration (multistage.py lines 115-121)
poll_decision(st, axes) ==
    IF \E x \in Range(axes) : bool(st[x][STALLED]) THEN "stalled"
    ELSE IF \A x \in Range(axes) : ~bool(st[x][RUNNING]) /\ bool(st[x][ON_TARGET])
    THEN "return"
    ELSE "sleep"

\* the decision of one poll iteration of move_for_time that does not look
\* at the timed-run flag
timed_poll_decision_running_only(st, axes) ==
    IF \E x \in Range(axes) : bool(st[x][STALLED]) THEN "stalled"
    ELSE IF \A x \in Range(axes) : ~bool(st[x][RUNNING])
    THEN "return"
    ELSE "sleep"

\* the decision of one poll iteration of move_for_time
\* (multistage.py lines 148-154)
timed_poll_decision(st, axes) ==
    IF \E x \in Range(axes) : bool(st[x][STALLED]) THEN "stalled"
    ELSE IF \A x \in Range(axes) : ~bool(st[x][RUNNING]) /\ ~bool(st[x][TIMED_RUN])
    THEN "return"
    ELSE "sleep"

\* the loop test that lets an iteration start at the timeout itself
within_timeout_inclusive(now, start) == now - start <= MOVE_TIMEOUT_S

\* the loop test that measures no time
within_timeout_stopped(now, start) == start - start < MOVE_TIMEOUT_S

\* while perf_counter() - start_time < self.__class__.MOVE_TIMEOUT_S
within_timeout(now, start) == now - start < MOVE_TIMEOUT_S

\* the names a caller passes as keyword arguments: those of AxisNames and
\* one no coordinator has
KwargNames == AxisNames \cup {"z"}

\* the keyword names of a call: distinct as written
TargetLists ==
    {<<>>} \cup
    {q \in UNION {[1..n -> KwargNames] : n \in 1..2} :
        \A i, j \in DOMAIN q : i # j => q[i] # q[j]}

\* kwargs = {k.lower(): v for k, v in kwargs.items()}, its keys
lower_keys(q) == Keys(LowerKeys(<<>>, [i \in DOMAIN q |->
                                          [name |-> q[i], val |-> 0]]))

\* axis_check that lets every name through
axis_check_none(names, d) == TRUE

\* axis_check: every keyword name, lowercased, is an axis of the coordinator
axis_check(names, d) ==
    \A i \in DOMAIN names : lower(names[i]) \in Range(Keys(d))

\* the loop over the named axes that goes over every axis instead
poll_order_all(axes, d) == Keys(d)

\* for x in axes.keys()
poll_order(axes, d) == axes

\* the seconds a round trip or a sleep can move the clock on
Advance == {d \in {0, ClockStep} : clock + d <= MaxClock}

\* the seconds a round trip can move the clock on before polling starts
IssueAdvance == {d \in {0, ClockStep} : clock + d <= MaxStart}

\* the setpoints of the moves: 7500.0 um and 2^30 um, which is out of range
MoveSetpoints ==
    {[hi |-> 0, lo |-> 7500, e |-> 0], [hi |-> 16384, lo |-> 0, e |-> 0]}

\* the (direction, seconds) pairs of the timed moves: forward without
\* limit, backward for 25.5 s, no direction, forward for 25.6 s
RunArgs ==
    {<<FORWARD, Nothing>>, <<BACKWARD, Some(510)>>, <<NEITHER, Nothing>>,
     <<FORWARD, Some(512)>>}

\* the transport after one axis operation of a running call
StepFinish(op, address, c) ==
    /\ Finish(op, address, NoFrame, c)
    /\ UNCHANGED <<kind, ifaceUp, axisUp, stages>>

\* the decorated call: axis_check, then the body's first statement
StartCall(op) ==
    /\ pc \in {"idle", "done"} /\ ~blocked /\ stages # <<>>
    /\ clock <= MaxStart
    /\ \E w \in BOOLEAN, q \in TargetLists :
         /\ wait' = w
         /\ IF axis_check(q, stages)
            THEN /\ targets' = lower_keys(q)
                 /\ pc' = IF q = <<>> THEN "issued" ELSE "issue"
                 /\ outcome' = "none"
            ELSE /\ targets' = <<>>
                 /\ pc' = "done"
                 /\ outcome' = "error"
         /\ call' = [NoCall EXCEPT
                        !.op = op, !.args = q,
                        !.pre_last = last_address,
                        !.pre_conf = hub_confirmed,
                        !.res = IF axis_check(q, stages) THEN "ok"
                                ELSE "raise",
                        !.err = IF axis_check(q, stages) THEN "-"
                                ELSE "AssertionError"]
    /\ moving' = op
    /\ idx' = 1
    /\ moved' = <<>>
    /\ polled' = <<>>
    /\ stats' = <<>>
    /\ truth' = <<>>
    /\ fresh' = {}
    /\ stallSeen' = FALSE
    /\ opTrace' = <<>>
    /\ UNCHANGED <<kind, ifaceUp, last_address, hub_confirmed, outstanding,
                   host_control, axisUp, stages, attrs, blocked, clock,
                   start_time, cvars>>

\* stages.move_absolute(wait=..., x=..., y=...)
MoveAbsolute == StartCall("move_absolute")

\* stages.move_for_time(wait=..., x=(direction, seconds), ...)
MoveForTime == StartCall("move_for_time")

\* the command of one named axis: self.stages[axis_name].move_to_target(...)
\* or self.stages[axis_name].run(direction, seconds); a name that is no key
\* of self.stages raises KeyError
issue(c, name, setpoint_um, run_args, sreply, reply) ==
    IF name \notin Range(Keys(stages)) THEN Raise(c, "KeyError")
    ELSE IF moving = "move_absolute"
    THEN move_to_target(c, Lookup(stages, name), setpoint_um, sreply, reply)
    ELSE run(c, Lookup(stages, name), run_args[1], run_args[2], sreply,
             reply)

\* one turn of the loop over axes.items()
IssueMove ==
    /\ pc = "issue" /\ ~blocked
    /\ \E rp \in AxisReplies, d \in IssueAdvance, setpoint_um \in MoveSetpoints,
          run_args \in RunArgs :
         \E c \in {issue(Ctx0, targets[idx], setpoint_um, run_args, rp[1],
                         rp[2])} :
             /\ moving = "move_absolute" => run_args = <<FORWARD, Nothing>>
             /\ moving = "move_for_time" => setpoint_um.hi = 0
             /\ StepFinish(IF moving = "move_absolute" THEN "move_to_target"
                           ELSE "run",
                           IF targets[idx] \in Range(Keys(stages))
                           THEN Lookup(stages, targets[idx]) ELSE None, c)
             /\ clock' = clock + d
             /\ pc' = IF c.st = "raise" THEN "done"
                      ELSE IF c.st = "block" THEN pc
                      ELSE IF idx = Len(targets) THEN "issued"
                      ELSE "issue"
             /\ idx' = IF c.st = "ok" THEN idx + 1 ELSE idx
             /\ moved' = IF c.st = "ok" THEN Append(moved, targets[idx])
                         ELSE moved
             /\ outcome' = IF c.st = "raise" THEN "error" ELSE outcome
    /\ UNCHANGED <<moving, wait, targets, start_time, polled, stats, truth,
                   fresh, stallSeen>>

\* a call that goes on to poll whether or not it was asked to wait
StartPolling_always ==
    /\ pc = "issued"
    /\ start_time' = clock
    /\ pc' = "loop"
    /\ UNCHANGED <<tvars, cvars, moving, wait, targets, idx, clock, moved, polled,
                   stats, truth, fresh, stallSeen, outcome>>

\* if not wait: return; start_time = perf_counter()
StartPolling ==
    /\ pc = "issued"
    /\ IF wait
       THEN /\ start_time' = clock
            /\ pc' = "loop"
            /\ outcome' = outcome
       ELSE /\ start_time' = start_time
            /\ pc' = "done"
            /\ outcome' = "returned"
    /\ UNCHANGED <<tvars, cvars, moving, wait, targets, idx, clock, moved, polled,
                   stats, truth, fresh, stallSeen>>

\* the loop test, and the raise after the loop
LoopTest ==
    /\ pc = "loop"
    /\ IF within_timeout(clock, start_time)
       THEN /\ pc' = IF poll_order(targets, stages) = <<>> THEN "check"
                     ELSE "poll"
            /\ outcome' = outcome
       ELSE /\ pc' = "done"
            /\ outcome' = "timedout"
    /\ idx' = 1
    /\ polled' = <<>>
    /\ stats' = <<>>
    /\ truth' = <<>>
    /\ fresh' = {}
    /\ UNCHANGED <<tvars, cvars, moving, wait, targets, clock, start_time, moved,
                   stallSeen>>

\* one entry of the stats dict:
\* self.stages[x].get_closed_loop_state_and_position()[0]
PollAxis ==
    /\ pc = "poll" /\ ~blocked
    /\ \E rp \in AxisReplies, word \in ReportedWords(moving), d \in Advance :
         \E x \in {poll_order(targets, stages)[idx]} :
         \E c \in {get_closed_loop_state_and_position(
                       Ctx0, Lookup(stages, x), rp[1], rp[2])} :
             /\ StepFinish("get_closed_loop_state_and_position",
                           Lookup(stages, x), c)
             /\ c.st # "ok" => word = 0
             /\ clock' = clock + d
             /\ pc' = IF c.st = "raise" THEN "done"
                      ELSE IF c.st = "block" THEN pc
                      ELSE IF idx = Len(poll_order(targets, stages))
                      THEN "check"
                      ELSE "poll"
             /\ outcome' = IF c.st = "raise" THEN "error" ELSE outcome
             /\ IF c.st = "ok"
                THEN /\ idx' = idx + 1
                     /\ polled' = Append(polled, x)
                     /\ stats' = [a \in DOMAIN stats \cup {x} |->
                                    IF a = x THEN parse_state(word)
                                    ELSE stats[a]]
                     /\ truth' = [a \in DOMAIN truth \cup {x} |->
                                    IF a = x THEN word ELSE truth[a]]
                     /\ fresh' = fresh \cup {x}
                     /\ stallSeen' = (stallSeen \/ Bit(word, STALLED))
                ELSE UNCHANGED <<idx, polled, stats, truth, fresh,
                                 stallSeen>>
    /\ UNCHANGED <<moving, wait, targets, start_time, moved>>

\* the two tests on the stats dict
Decide ==
    /\ pc = "check"
    /\ LET dec == IF moving = "move_absolute"
                  THEN poll_decision(stats, targets)
                  ELSE timed_poll_decision(stats, targets)
       IN  /\ pc' = IF dec = "sleep" THEN "sleep" ELSE "done"
           /\ outcome' = IF dec = "stalled" THEN "stalled"
                         ELSE IF dec = "return" THEN "returned"
                         ELSE outcome
    /\ UNCHANGED <<tvars, cvars, moving, wait, targets, idx, clock, start_time,
                   moved, polled, stats, truth, fresh, stallSeen>>

\* sleep(0.01)
Sleep ==
    /\ pc = "sleep"
    /\ \E d \in Advance : clock' = clock + d
    /\ pc' = "loop"
    /\ UNCHANGED <<tvars, cvars, moving, wait, targets, idx, start_time, moved,
                   polled, stats, truth, fresh, stallSeen, outcome>>

\* a coordinator over two constructed controllers: x is '01', y is '02'
InitPolling ==
    /\ InitMove
    /\ kind \in Kinds
    /\ ifaceUp = TRUE
    /\ last_address = "02"
    /\ hub_confirmed = "02"
    /\ outstanding = 0
    /\ host_control = [a \in Addresses |-> TRUE]
    /\ axisUp = [a \in Addresses |-> TRUE]
    /\ attrs = [a \in Addresses |-> InitAttrs]
    /\ stages = <<[name |-> "x", val |-> "01"], [name |-> "y", val |-> "02"]>>
    /\ opTrace = <<>>
    /\ call = NoCall
    /\ blocked = FALSE

NextMove ==
    \/ MoveAbsolute
    \/ MoveForTime
    \/ IssueMove
    \/ StartPolling
    \/ LoopTest
    \/ PollAxis
    \/ Decide
    \/ Sleep

SpecMove == InitPolling /\ [][NextMove]_vars

\* the steps of a call are taken; sleep(0.01) and the round trips take
\* time, so that the clock is read later again and again
FairMove ==
    /\ WF_vars(LoopTest)
    /\ WF_vars(PollAxis)
    /\ WF_vars(Decide)
    /\ WF_vars(Sleep)
    /\ SF_vars(Sleep /\ clock' > clock)

SpecMoveFair == InitPolling /\ [][NextMove]_vars /\ FairMove

\* ------------------------------------------------------------------------
\* MultiStage.set_open_loop_speed and
\* MultiStage.set_closed_loop_speed_and_accel (multistage.py)
\* ------------------------------------------------------------------------
\* the decorator's first line, args = [a.lower() for a in args]: a setting
\* given by position is a number or a tuple, which has no lower()
lower_args(c, how, global) ==
    IF global # Nothing /\ how = "positional"
    THEN Raise(c, "AttributeError")
    ELSE c

\* the axes a dict of settings names, each with its address and its setting
Named(axes) ==
    [i \in DOMAIN axes |->
        [addr |-> Lookup(stages, axes[i].name), val |-> axes[i].val]]

\* the same setting for every axis of the coordinator
Every(setting) ==
    [i \in DOMAIN stages |-> [addr |-> stages[i].val, val |-> setting]]

\* axis.set_open_loop_speed(speed) for one axis after the other; the first
\* raise ends it
RECURSIVE EachOpenLoopSpeed(_, _, _)
EachOpenLoopSpeed(c0, items, rps) ==
    Bind(c0, LAMBDA c :
    IF items = <<>> \/ c.st # "ok" THEN c
    ELSE EachOpenLoopSpeed(
             set_open_loop_speed(c, Head(items).addr, Head(items).val,
                                 Head(rps)[1], Head(rps)[2]),
             Tail(items), Tail(rps)))

\* stage.set_closed_loop_speed_and_accel(*settings): a 2-tuple leaves the
\* minimum speed at its default of 20 um/s; the interval count is 1
RECURSIVE EachClosedLoopSpeed(_, _, _)
EachClosedLoopSpeed(c0, items, rps) ==
    Bind(c0, LAMBDA c :
    IF items = <<>> \/ c.st # "ok" THEN c
    ELSE LET s == Head(items).val
         IN  EachClosedLoopSpeed(
                 set_closed_loop_speed_and_accel(
                     c, Head(items).addr, s[1], s[2],
                     IF Len(s) > 2 THEN s[3] ELSE 20, 1,
                     Head(rps)[1], Head(rps)[2]),
                 Tail(items), Tail(rps)))

\* MultiStage.set_open_loop_speed behind @axis_check('global_speed')
MultiStage_set_open_loop_speed(c0, how, global_speed, kwargs, rps) ==
    Bind(lower_args(c0, how, global_speed), LAMBDA c :
    IF c.st # "ok" THEN c
    ELSE LET axes == LowerKeys(<<>>, kwargs)
         IN  IF ~axis_check(Keys(axes), stages)
             THEN Raise(c, "AssertionError")
             ELSE IF global_speed # Nothing
             THEN EachOpenLoopSpeed(c, Every(The(global_speed)), rps)
             ELSE EachOpenLoopSpeed(c, Named(axes), rps))

\* MultiStage.set_closed_loop_speed_and_accel behind
\* @axis_check('global_setting'): the branch of the global setting calls
\* axis.set_set_closed_loop_speed_and_accel, which no stage has
MultiStage_set_closed_loop_speed_and_accel(c0, how, global_setting, kwargs, rps) ==
    Bind(lower_args(c0, how, global_setting), LAMBDA c :
    IF c.st # "ok" THEN c
    ELSE LET axes == LowerKeys(<<>>, kwargs)
         IN  IF ~axis_check(Keys(axes), stages)
             THEN Raise(c, "AssertionError")
             ELSE IF global_setting # Nothing
             THEN IF stages = <<>> THEN c ELSE Raise(c, "AttributeError")
             ELSE EachClosedLoopSpeed(c, Named(axes), rps))

\* the per-axis keyword arguments of a call, over the values given, of
\* which the last is one the stage refuses
BatchKwargs(v1, v2, bad) ==
    {<<>>,
     <<[name |-> "x", val |-> v1]>>,
     <<[name |-> "y", val |-> v2]>>,
     <<[name |-> "X", val |-> v2], [name |-> "y", val |-> v1]>>,
     <<[name |-> "y", val |-> bad]>>,
     <<[name |-> "z", val |-> v1]>>}

\* how a call gives its settings: none for all axes, or one by position or
\* by keyword, each with the per-axis keyword arguments
BatchCalls(g, v1, v2, bad) ==
    {[how |-> "keyword", global |-> Nothing, kwargs |-> kw] :
         kw \in BatchKwargs(v1, v2, bad)}
        \cup {[how |-> h, global |-> Some(g), kwargs |-> kw] :
                 h \in {"positional", "keyword"},
                 kw \in {<<>>, <<[name |-> "x", val |-> v2]>>}}

\* what the two axes answer, each selected in its turn
BatchReplies ==
    [1..Len(stages) -> {<<"1", "ok">>, <<"1", "illegal">>,
                        <<"1", "timeout">>}]

\* stages.set_open_loop_speed(global_speed, **axes)
MultiSetOpenLoopSpeed ==
    /\ ~blocked /\ stages # <<>>
    /\ \E a \in BatchCalls(50, 100, 25, 101), rps \in BatchReplies :
         \E c \in {MultiStage_set_open_loop_speed(Ctx0, a.how, a.global,
                                                  a.kwargs, rps)} :
             FinishWith("multi_set_open_loop_speed", None, NoFrame,
                        <<a.how, a.global, a.kwargs>>, c)
    /\ UNCHANGED <<kind, ifaceUp, axisUp, stages, mvars>>

\* stages.set_closed_loop_speed_and_accel(global_setting, **axes)
MultiSetClosedLoopSpeedAndAccel ==
    /\ ~blocked /\ stages # <<>>
    /\ \E a \in BatchCalls(<<1000, 125>>, <<2000, 250, 125>>,
                           <<500, 125>>, <<1000, 125, 1000>>),
          rps \in BatchReplies :
         \E c \in {MultiStage_set_closed_loop_speed_and_accel(
                       Ctx0, a.how, a.global, a.kwargs, rps)} :
             FinishWith("multi_set_closed_loop_speed_and_accel", None,
                        NoFrame, <<a.how, a.global, a.kwargs>>, c)
    /\ UNCHANGED <<kind, ifaceUp, axisUp, stages, mvars>>

\* the loop of MultiStage.set_soft_limits, for axis_name, (min_limit,
\* max_limit) in axes.items(): a value that is not a pair raises ValueError
\* when it is unpacked; the stage is given no margin and takes its default
\* of 0
RECURSIVE EachSoftLimits(_, _, _)
EachSoftLimits(c0, items, rps) ==
    Bind(c0, LAMBDA c :
    IF items = <<>> \/ c.st # "ok" THEN c
    ELSE IF Len(Head(items).val) # 2 THEN Raise(c, "ValueError")
    ELSE EachSoftLimits(
             set_soft_limits(c, Head(items).addr, Head(items).val[1],
                             Head(items).val[2], 0, Head(rps)[1],
                             Head(rps)[2]),
             Tail(items), Tail(rps)))

\* MultiStage.set_soft_limits behind @axis_check()
MultiStage_set_soft_limits(c, kwargs, rps) ==
    LET axes == LowerKeys(<<>>, kwargs)
    IN  IF ~axis_check(Keys(axes), stages) THEN Raise(c, "AssertionError")
        ELSE EachSoftLimits(c, Named(axes), rps)

\* the per-axis (min, max) and (min, max, margin) of a call, the margin in
\* eighths of a um
SoftLimitKwargs ==
    {<<>>,
     <<[name |-> "x", val |-> <<Um(0), Um(7500)>>]>>,
     <<[name |-> "y", val |-> <<Um(-7500), Um(7500), 8>>]>>,
     <<[name |-> "X", val |-> <<Um(-7500), Um(7500)>>],
       [name |-> "y", val |-> <<Um(0), Um(7500)>>]>>,
     <<[name |-> "x", val |-> <<Um(0), Um(7500)>>],
       [name |-> "y", val |-> <<Um(-7500), Um(7500), 8>>]>>,
     <<[name |-> "y", val |-> <<Um(0), [hi |-> 16384, lo |-> 0, e |-> 0]>>]>>,
     <<[name |-> "z", val |-> <<Um(0), Um(7500)>>]>>}

\* stages.set_soft_limits(**axes)
MultiSetSoftLimits ==
    /\ ~blocked /\ stages # <<>>
    /\ \E kwargs \in SoftLimitKwargs, rps \in BatchReplies :
         \E c \in {MultiStage_set_soft_limits(Ctx0, kwargs, rps)} :
             FinishWith("multi_set_soft_limits", None, NoFrame, <<kwargs>>,
                        c)
    /\ UNCHANGED <<kind, ifaceUp, axisUp, stages, mvars>>

\* stages = MultiStage(x=x_stage, y=y_stage) over one interface
InitBatch == InitPolling

NextBatch ==
    \/ MultiSetOpenLoopSpeed
    \/ MultiSetClosedLoopSpeedAndAccel
    \/ MultiSetSoftLimits

SpecBatch == InitBatch /\ [][NextBatch]_vars

\* ------------------------------------------------------------------------
\* Threads on one shared transport
\* ------------------------------------------------------------------------
\* Each thread calls M3LinearSmartStage._send on an axis of its choice;
\* every read or write of interface.last_address and every write to or read
\* from the channel is a step of its own, and steps of different threads
\* interleave freely.  With use_lock the caller wraps each _send call in
\* one lock shared by all threads.

\* each thread makes at most this many calls
MaxOps == 2

\* the hub's acknowledgement of the select frame of thread t's n-th call
SelectReplyTo(t, n, address) ==
    [kind |-> "select", to |-> t, n |-> n, dev |-> address]

\* the answer of the stage at dev to the command of thread t's n-th call
StageReplyTo(t, n, dev) == [kind |-> "stage", to |-> t, n |-> n, dev |-> dev]

At(t, at, in) == tpc' = [tpc EXCEPT ![t] = [at |-> at, in |-> in]]

Idle == [at |-> "idle", in |-> "-"]

\* serial.readLine() takes the oldest reply and gives up empty-handed after
\* the timeout; sock.recv(BUFFER_SIZE) blocks for data and takes all there is
Incoming == IF kind = "poe" THEN line ELSE Take(line, 1)

CanReceive == kind = "poe" => line # <<>>

\* the reply is the one to the caller's own frame
Own(t, want, data) ==
    /\ Len(data) = 1
    /\ data[1].kind = want /\ data[1].to = t /\ data[1].n = ops[t]

Receive(t, want) ==
    /\ CanReceive
    /\ line' = SubSeq(line, Len(Incoming) + 1, Len(line))
    /\ taken' = [taken EXCEPT
                    ![t] = Some([want |-> want, data |-> Incoming,
                                 warn |-> want = "stage" /\ kind # "poe"
                                          /\ last_address # taxis[t]])]

\* the variables no thread step changes
Unthreaded ==
    UNCHANGED <<kind, ifaceUp, outstanding, host_control, axisUp, attrs,
                stages, opTrace, call, blocked, mvars, use_lock>>

\* a caller that enters _send without taking the lock
Begin_unlocked(t) ==
    /\ tpc[t].at = "idle" /\ ops[t] < MaxOps
    /\ \E address \in Addresses : taxis' = [taxis EXCEPT ![t] = address]
    /\ lock_owner' = IF use_lock THEN t ELSE lock_owner
    /\ ops' = [ops EXCEPT ![t] = @ + 1]
    /\ At(t, "test", "send")
    /\ arrived' = [arrived EXCEPT ![t] = Nothing]
    /\ taken' = [taken EXCEPT ![t] = Nothing]
    /\ UNCHANGED <<last_address, hub_confirmed, hub_selected, line>>
    /\ Unthreaded

\* stage._send(cmd_str) is entered, inside "with lock:" when use_lock
Begin(t) ==
    /\ tpc[t].at = "idle" /\ ops[t] < MaxOps
    /\ use_lock => lock_owner = None
    /\ \E address \in Addresses : taxis' = [taxis EXCEPT ![t] = address]
    /\ lock_owner' = IF use_lock THEN t ELSE lock_owner
    /\ ops' = [ops EXCEPT ![t] = @ + 1]
    /\ At(t, "test", "send")
    /\ arrived' = [arrived EXCEPT ![t] = Nothing]
    /\ taken' = [taken EXCEPT ![t] = Nothing]
    /\ UNCHANGED <<last_address, hub_confirmed, hub_selected, line>>
    /\ Unthreaded

\* if self.last_address != address, in send and in PoEInterface.read
TestAddress(t) ==
    /\ tpc[t].at = "test"
    /\ At(t, IF last_address # taxis[t] THEN "assign"
             ELSE IF tpc[t].in = "send" THEN "write" ELSE "read",
          tpc[t].in)
    /\ UNCHANGED <<last_address, hub_confirmed, lock_owner, taxis, ops,
                   hub_selected, line, arrived, taken>>
    /\ Unthreaded

\* _select_stage: self.last_address = address
AssignAddress(t) ==
    /\ tpc[t].at = "assign"
    /\ last_address' = taxis[t]
    /\ At(t, "select", tpc[t].in)
    /\ UNCHANGED <<hub_confirmed, lock_owner, taxis, ops, hub_selected, line,
                   arrived, taken>>
    /\ Unthreaded

\* _select_stage: self.send(msg); the hub switches and acknowledges
WriteSelect(t) ==
    /\ tpc[t].at = "select"
    /\ hub_selected' = taxis[t]
    /\ line' = Append(line, SelectReplyTo(t, ops[t], taxis[t]))
    /\ At(t, "confirm", tpc[t].in)
    /\ UNCHANGED <<last_address, hub_confirmed, lock_owner, taxis, ops,
                   arrived, taken>>
    /\ Unthreaded

\* _select_stage: parse_tr_reply(self.read()), which raises on anything
\* but one transceiver reply
ReadSelect(t) ==
    /\ tpc[t].at = "confirm"
    /\ Receive(t, "select")
    /\ IF Len(Incoming) = 1 /\ Incoming[1].kind = "select"
       THEN /\ hub_confirmed' = Incoming[1].dev
            /\ At(t, IF tpc[t].in = "send" THEN "write" ELSE "read",
                  tpc[t].in)
       ELSE /\ hub_confirmed' = hub_confirmed
            /\ At(t, "return", tpc[t].in)
    /\ UNCHANGED <<last_address, lock_owner, taxis, ops, hub_selected,
                   arrived>>
    /\ Unthreaded

\* a transport that writes a stage frame only while the hub is on the
\* frame's address
WriteCommand_checked(t) ==
    /\ tpc[t].at = "write"
    /\ hub_selected = taxis[t]
    /\ arrived' = [arrived EXCEPT ![t] = Some(hub_selected)]
    /\ line' = Append(line, StageReplyTo(t, ops[t], hub_selected))
    /\ At(t, IF kind = "poe" THEN "test" ELSE "read", "read")
    /\ UNCHANGED <<last_address, hub_confirmed, lock_owner, taxis, ops,
                   hub_selected, taken>>
    /\ Unthreaded

\* send: self.serial.write(out_msg) / self.sock.sendall(...); the frame
\* goes to the device the hub is on, which answers it; with no device
\* selected it goes nowhere
WriteCommand(t) ==
    /\ tpc[t].at = "write"
    /\ arrived' = [arrived EXCEPT ![t] = Some(hub_selected)]
    /\ line' = IF hub_selected = None THEN line
               ELSE Append(line, StageReplyTo(t, ops[t], hub_selected))
    /\ At(t, IF kind = "poe" THEN "test" ELSE "read", "read")
    /\ UNCHANGED <<last_address, hub_confirmed, lock_owner, taxis, ops,
                   hub_selected, taken>>
    /\ Unthreaded

\* read: data = self.serial.readLine() / self.sock.recv(...), and on USB
\* the warning when last_address is another address
ReadReply(t) ==
    /\ tpc[t].at = "read"
    /\ Receive(t, "stage")
    /\ At(t, "return", "read")
    /\ UNCHANGED <<last_address, hub_confirmed, lock_owner, taxis, ops,
                   hub_selected, arrived>>
    /\ Unthreaded

\* _send returns or raises, and the caller's "with lock:" block ends
Return(t) ==
    /\ tpc[t].at = "return"
    /\ tpc' = [tpc EXCEPT ![t] = Idle]
    /\ lock_owner' = IF use_lock THEN None ELSE lock_owner
    /\ UNCHANGED <<last_address, hub_confirmed, taxis, ops, hub_selected,
                   line, arrived, taken>>
    /\ Unthreaded

\* an interface that stands, with nothing or an address selected, before
\* the threads start
InitThreads ==
    /\ kind \in {"pyserial", "poe"}
    /\ ifaceUp = TRUE
    /\ last_address \in Addresses \cup {None}
    /\ hub_confirmed = last_address
    /\ hub_selected = last_address
    /\ outstanding = 0
    /\ host_control = [a \in Addresses |-> TRUE]
    /\ axisUp = [a \in Addresses |-> TRUE]
    /\ attrs = [a \in Addresses |-> InitAttrs]
    /\ stages = <<>>
    /\ opTrace = <<>>
    /\ call = NoCall
    /\ blocked = FALSE
    /\ NoMove
    /\ use_lock \in BOOLEAN
    /\ lock_owner = None
    /\ tpc = [t \in Threads |-> Idle]
    /\ taxis = [t \in Threads |-> None]
    /\ ops = [t \in Threads |-> 0]
    /\ line = <<>>
    /\ arrived = [t \in Threads |-> Nothing]
    /\ taken = [t \in Threads |-> Nothing]

NextThreads ==
    \E t \in Threads :
        \/ Begin(t)
        \/ TestAddress(t)
        \/ AssignAddress(t)
        \/ WriteSelect(t)
        \/ ReadSelect(t)
        \/ WriteCommand(t)
        \/ ReadReply(t)
        \/ Return(t)

SpecThreads == InitThreads /\ [][NextThreads]_vars

\* ------------------------------------------------------------------------
\* Properties of the transport
\* ------------------------------------------------------------------------
IsWrite(e) == e.k = "w"
IsRead(e) == e.k = "r"
IsSelectWrite(e) == e.k = "w" /\ e.frame.tr /\ e.frame.cmd = STAGE_SELECT
IsStageWrite(e) == e.k = "w" /\ ~e.frame.tr

\* the operation had to select: an address was given and it differed from
\* the recorded selection
NeededSelect == call.addr # None /\ call.addr # call.pre_last

\* C1: a stage-bound message carrying address a is written to the channel
\* only if the most recent stage-select reply of the hub was for a with
\* device-present flag 1.
C1_AddressedWriteOnlyWhenConfirmed ==
    \A i \in DOMAIN opTrace :
        (IsStageWrite(opTrace[i]) /\ opTrace[i].addr # None)
            => opTrace[i].conf = opTrace[i].addr

\* C2: a select whose reply carries a device-present flag other than 1
\* raises the address-not-present error and leaves last_address as it was
\* before the call; last_address changes only when the reply confirms
\* presence.
C2_FailedSelectKeepsSelection ==
    /\ \A i \in DOMAIN opTrace :
          (i > 1 /\ IsSelectWrite(opTrace[i - 1]) /\ IsRead(opTrace[i])
             /\ opTrace[i].data \in {"0", "2"})
            => /\ call.res = "raise"
               /\ call.err = "AddressNotPresent"
               /\ last_address = call.pre_last
    /\ (call.op # "NewInterface" /\ last_address # call.pre_last)
          => \E i \in DOMAIN opTrace :
                IsRead(opTrace[i]) /\ opTrace[i].data = "1"

\* C3: send(msg, address) emits a stage-select frame for address, and reads
\* its reply, immediately before msg exactly when address is given and
\* differs from the recorded selection; otherwise msg is the only frame
\* emitted and the recorded selection is unchanged.
C3_SelectExactlyWhenAddressDiffers ==
    call.op = "send" =>
        /\ NeededSelect =>
              /\ Len(opTrace) >= 1
              /\ opTrace[1].k = "w"
              /\ opTrace[1].frame = TrFrame(STAGE_SELECT, call.addr)
              /\ Len(opTrace) >= 2 => IsRead(opTrace[2])
              /\ call.res = "ok" =>
                    /\ Len(opTrace) = 3
                    /\ opTrace[3].k = "w"
                    /\ opTrace[3].frame = call.msg
                    /\ opTrace[3].addr = call.addr
              /\ call.res # "ok" => Len(opTrace) <= 2
        /\ ~NeededSelect =>
              /\ Len(opTrace) = 1
              /\ opTrace[1].k = "w"
              /\ opTrace[1].frame = call.msg
              /\ last_address = call.pre_last
        /\ (\E i \in DOMAIN opTrace : IsSelectWrite(opTrace[i]))
              => NeededSelect

\* a send that selected, was confirmed and then wrote its message
C3_Witness ==
    /\ call.op = "send" /\ NeededSelect /\ call.res = "ok"
    /\ Len(opTrace) = 3
    /\ call.pre_last # None

\* C4: read(address) writes nothing to the channel and leaves last_address
\* unchanged on every transport variant, whether or not address equals the
\* last selection.
C4_ReadWritesNothing ==
    call.op = "read" =>
        /\ \A i \in DOMAIN opTrace : ~IsWrite(opTrace[i])
        /\ last_address = call.pre_last

\* C8: creating a transport writes the transceiver firmware-version query
\* as its first frame, reads the reply before anything else is sent,
\* selects no device and leaves last_address null.
C8_ConstructionHandshake ==
    call.op = "NewInterface" =>
        /\ Len(opTrace) >= 1
        /\ opTrace[1].k = "w"
        /\ opTrace[1].frame = TrFrame(FIRMWARE_VERSION, "")
        /\ opTrace[1].addr = None
        /\ Len(opTrace) >= 2 => (IsRead(opTrace[2]) /\ Len(opTrace) = 2)
        /\ \A i \in DOMAIN opTrace : ~IsSelectWrite(opTrace[i])
        /\ last_address = None
        /\ hub_confirmed = None

\* a transport whose handshake was answered
C8_Witness ==
    /\ call.op = "NewInterface" /\ call.res = "ok" /\ ifaceUp
    /\ Len(opTrace) = 2 /\ opTrace[2].data = "ok"

\* ------------------------------------------------------------------------
\* Properties of the axis controller
\* ------------------------------------------------------------------------
AxisOps ==
    {"NewStage", "get_firmware_version", "close", "halt", "set_drive_mode"}
MultiOps == {"multi_set_drive_mode", "multi_halt", "multi_close"}

\* the stage commands of the operation, in the order they were written
StageWrites == SelectSeq(opTrace, IsStageWrite)

\* C5: over any sequence of axis and coordinator operations, frames written
\* and replies read strictly alternate, the select round trip included: at
\* most one frame is outstanding, and none when an operation returns or
\* raises.
C5_WritesAndReadsAlternate ==
    /\ outstanding <= 1
    /\ ~blocked => outstanding = 0
    /\ call.op \in AxisOps \cup MultiOps =>
          /\ \A i \in DOMAIN opTrace :
                IF i % 2 = 1 THEN IsWrite(opTrace[i]) ELSE IsRead(opTrace[i])
          /\ call.res \in {"ok", "raise"} => Len(opTrace) % 2 = 0
          /\ call.res = "block" => Len(opTrace) % 2 = 1

\* a broadcast that selected and commanded two stages, four round trips
C5_Witness ==
    /\ call.op = "multi_halt" /\ call.res = "ok"
    /\ Len(opTrace) = 8 /\ outstanding = 0

\* C6: over its whole lifetime, operations after close() included, a
\* controller writes no stage command other than the firmware-version
\* request while host control is not established.
C6_NoCommandWithoutHostControl ==
    call.op \in AxisOps \cup MultiOps =>
        \A i \in DOMAIN opTrace :
            (IsStageWrite(opTrace[i])
               /\ opTrace[i].frame.cmd # FIRMWARE_VERSION)
                => opTrace[i].hc

\* C7: constructing a controller writes the firmware-version request first
\* and the drive-mode command selecting ClosedLoop second, and no other
\* stage command; when the firmware-version request is unanswered or
\* rejected, construction fails and no drive-mode command is written.
C7_ConstructionOrder ==
    call.op = "NewStage" =>
        /\ Len(StageWrites) <= 2
        /\ Len(StageWrites) >= 1 =>
              StageWrites[1].frame = StageFrame(FIRMWARE_VERSION, "")
        /\ Len(StageWrites) = 2 =>
              StageWrites[2].frame = StageFrame(DRIVE_MODE, CLOSED_LOOP)
        /\ call.res = "ok" => Len(StageWrites) = 2
        /\ \A i \in DOMAIN opTrace :
              (IsStageWrite(opTrace[i])
                 /\ opTrace[i].frame.cmd = FIRMWARE_VERSION
                 /\ (i = Len(opTrace) \/ opTrace[i + 1].data # "ok"))
                => /\ call.res # "ok"
                   /\ ~axisUp[call.addr]
                   /\ Len(StageWrites) = 1

\* a controller whose firmware-version request was rejected
C7_Witness ==
    /\ call.op = "NewStage" /\ call.err = "IllegalCommandError"
    /\ Len(StageWrites) = 1
    /\ opTrace[Len(opTrace)].data = "illegal"
    /\ \E a \in Addresses : axisUp[a]

\* ------------------------------------------------------------------------
\* Properties of the polling loop
\* ------------------------------------------------------------------------
\* every named axis reported in the current iteration
AllReported == \A x \in Range(targets) : x \in fresh

C10_ReturnOnlyWhenAllOnTarget ==
    (moving = "move_absolute" /\ pc = "done" /\ wait
        /\ outcome = "returned") =>
        \A x \in Range(targets) :
            /\ x \in fresh
            /\ ~Bit(truth[x], RUNNING)
            /\ Bit(truth[x], ON_TARGET)
            /\ ~Bit(truth[x], STALLED)

\* a normal return from the second or a later iteration of a two-axis move
C10_Witness ==
    /\ moving = "move_absolute"
    /\ pc = "done" /\ wait /\ outcome = "returned"
    /\ Len(targets) = 2
    /\ clock > start_time

\* the time since polling began
Elapsed == clock - start_time

\* C11: a move_absolute(wait=true) call that is still polling raises the
\* timeout error at the loop test at which the time elapsed since polling
\* began has reached MOVE_TIMEOUT_S, and at no other moment: not before the
\* timeout, and no further iteration is started after it.
C11_TimeoutAtTheLoopTest ==
    [][moving = "move_absolute" =>
          /\ (outcome' = "timedout" /\ outcome # "timedout") =>
                 pc = "loop" /\ wait /\ Elapsed >= MOVE_TIMEOUT_S
          /\ (pc = "loop" /\ Elapsed >= MOVE_TIMEOUT_S) =>
                 pc' = "done" /\ outcome' = "timedout"]_vars

\* the timeout error of a two-axis move_absolute, raised at the first clock
\* reading at or past the timeout
C11_Witness ==
    /\ moving = "move_absolute" /\ wait
    /\ pc = "done" /\ outcome = "timedout"
    /\ Len(targets) = 2
    /\ Elapsed >= MOVE_TIMEOUT_S /\ Elapsed < MOVE_TIMEOUT_S + ClockStep

\* the last operation was a status query, and the stage answered it with
\* its state
StatusAnswered ==
    /\ call.op = "get_closed_loop_state_and_position"
    /\ opTrace # <<>>
    /\ opTrace[Len(opTrace)].k = "r"
    /\ opTrace[Len(opTrace)].data = "ok"

\* C12: a move_absolute(wait=true) or move_for_time(wait=true) call that
\* has begun to poll ends, unless a status query is never answered; and it
\* ends with a normal return, the stall error or the timeout error: another
\* error comes out of the polling phase only from a status query that the
\* stage did not answer with its state.
C12_PollingTerminatesThreeWays ==
    /\ [](pc = "done" =>
             outcome \in {"returned", "stalled", "timedout", "error"})
    /\ []((pc = "done" /\ wait /\ outcome = "error"
             /\ call.op = "get_closed_loop_state_and_position") =>
             ~StatusAnswered)
    /\ (wait /\ pc \in {"loop", "poll", "check", "sleep"})
           ~> (pc = "done" \/ blocked)

\* a two-axis move_for_time that ended with the timeout error
C12_Witness ==
    /\ moving = "move_for_time" /\ wait
    /\ pc = "done" /\ outcome = "timedout"
    /\ Len(targets) = 2

\* the last operation wrote one stage command, cmd, and read its reply
OneRoundTrip(cmd) ==
    /\ Len(StageWrites) = 1
    /\ StageWrites[1].frame.cmd = cmd
    /\ Len(opTrace) >= 2
    /\ IsStageWrite(opTrace[Len(opTrace) - 1])
    /\ IsRead(opTrace[Len(opTrace)])

\* C13: move_absolute(wait=true) has commanded every named axis exactly
\* once, in a round trip each, when the first status query is made; each
\* poll iteration queries the named axes, each once, and no other axis.
C13_OneMovePerAxisThenPolls ==
    (moving = "move_absolute" /\ wait) =>
        /\ pc \in {"issued", "loop", "poll", "check", "sleep"} =>
               moved = targets
        /\ pc = "issue" => moved = Take(targets, idx - 1) /\ polled = <<>>
        /\ polled # <<>> => moved = targets
        /\ pc = "poll" => polled = Take(targets, idx - 1)
        /\ pc \in {"check", "sleep"} => polled = targets
        /\ (pc = "done" /\ outcome \in {"returned", "stalled"}) =>
               polled = targets
        /\ (call.op = "move_to_target" /\ call.res = "ok") =>
               OneRoundTrip(MOVE_TO_TARGET)
        /\ (call.op = "get_closed_loop_state_and_position"
               /\ call.res = "ok") => OneRoundTrip(CLOSED_LOOP_STATE)

\* the second or a later iteration of a move of one of two axes, all its
\* queries made
C13_Witness ==
    /\ moving = "move_absolute" /\ wait
    /\ pc = "check"
    /\ Len(targets) = 1 /\ Len(stages) = 2
    /\ Elapsed > 0

UnknownAxisNamed ==
    /\ call.op \in {"move_absolute", "move_for_time"}
    /\ \E i \in DOMAIN call.args :
           lower(call.args[i]) \notin Range(Keys(stages))

\* C15: move_absolute and move_for_time called with a name that is no axis
\* of the coordinator raise and have written nothing: no axis was
\* commanded, the validly named ones included.
C15_UnknownAxisFailsFast ==
    UnknownAxisNamed =>
        /\ pc = "done" /\ outcome = "error"
        /\ call.res = "raise"
        /\ opTrace = <<>>
        /\ moved = <<>>

\* a timed move that names a valid axis first and an unknown one second
C15_Witness ==
    /\ call.op = "move_for_time"
    /\ call.args = <<"x", "z">>
    /\ pc = "done" /\ outcome = "error"

\* ------------------------------------------------------------------------
\* Properties of the coordinator's construction
\* ------------------------------------------------------------------------
\* two of the names handed to MultiStage(...) are equal but for their case
CaseCollision(kw) ==
    \E i, j \in DOMAIN kw : i # j /\ lower(kw[i].name) = lower(kw[j].name)

\* C16: MultiStage(...) given two names that are equal ignoring case is
\* rejected; a coordinator that was constructed holds every controller it
\* was given, under the lowercased name.
C16_CaseCollisionRejected ==
    call.op = "NewMultiStage" =>
        /\ CaseCollision(call.args) => call.res = "raise"
        /\ call.res = "ok" =>
               \A i \in DOMAIN call.args :
                   \E k \in DOMAIN stages :
                       stages[k] = [name |-> lower(call.args[i].name),
                                    val |-> call.args[i].val]

\* ------------------------------------------------------------------------
\* Properties of the commands with arguments
\* ------------------------------------------------------------------------
\* the length p, in um, is at or past 2^30 - 1/4 or below -2^30 - 1/4: twice
\* p rounds to a number of ticks outside -2^31 .. 2^31 - 1
TicksOutOfRange(p) ==
    \/ p.hi > 16383
    \/ p.hi = 16383 /\ p.lo = 65535 /\ p.e >= 6
    \/ p.hi < -16385
    \/ p.hi = -16385 /\ (p.lo < 65535 \/ p.e < 6)

\* the last call broke the range or configuration precondition of its
\* operation
PreconditionViolated ==
    LET a == call.args
    IN  CASE call.op = "run" ->
                 a[1] = NEITHER \/ (a[2] # Nothing /\ The(a[2]) > 510)
          [] call.op = "multi_time_step" ->
                 \/ a[1] = NEITHER
                 \/ \E i, j \in 2..4 : a[i] = Nothing /\ a[j] # Nothing
                 \/ /\ a[2] # Nothing /\ a[3] # Nothing /\ a[4] # Nothing
                    /\ \/ The(a[2]) <= 0 \/ The(a[2]) > 65535
                       \/ The(a[4]) >= The(a[3])
                       \/ \A u \in TimeUnits : The(a[3]) > 65535 * u
                       \/ \A u \in TimeUnits : The(a[4]) > 65535 * u
          [] call.op = "distance_step" ->
                 a[1] # Nothing /\ (The(a[1]).hi > 16383
                                      \/ The(a[1]).hi < -16384)
          [] call.op = "move_to_target" -> TicksOutOfRange(a[1])
          [] call.op = "set_open_loop_speed" -> a[1] > 100
          [] call.op = "set_closed_loop_speed_and_accel" ->
                 a[1] <= a[3] \/ a[1] >= 32768000
          [] call.op = "set_soft_limits" ->
                 \/ TicksOutOfRange(a[1]) \/ TicksOutOfRange(a[2])
                 \/ a[3] < 0 \/ a[3] > 262140
          [] call.op = "set_baud_rate" ->
                 a[1] \notin {19200, 38400, 57600, 115200, 250000}
          [] OTHER -> FALSE

\* C17: a single-axis call that violates the range or configuration
\* precondition of its operation raises, and no frame of any kind was
\* written to the transport during the call.
C17_PreconditionFailsClosed ==
    PreconditionViolated =>
        /\ call.res = "raise"
        /\ \A i \in DOMAIN opTrace : ~IsWrite(opTrace[i])

\* C18: move_to_target raises its range error, with nothing sent, exactly
\* for the positions whose rounded tick value is outside -2^31 .. 2^31 - 1;
\* a position whose tick value is inside, the two ends included, is
\* accepted and its frame is written.
C18_MoveToTargetRange ==
    call.op = "move_to_target" =>
        /\ TicksOutOfRange(call.args[1]) =>
               /\ call.res = "raise" /\ call.err = "AssertionError"
               /\ opTrace = <<>>
        /\ ~TicksOutOfRange(call.args[1]) =>
               /\ call.err # "AssertionError"
               /\ StageWrites # <<>>
               /\ StageWrites[1].frame.cmd = MOVE_TO_TARGET

\* the largest position with a tick value in range, 2^30 - 1/2 um, was
\* accepted and answered
C18_Witness ==
    /\ call.op = "move_to_target"
    /\ call.args[1] = [hi |-> 16383, lo |-> 65535, e |-> 4]
    /\ call.res = "ok"

\* the four upper-case hex digits of n in 0 .. 65535
UpperHex4(n) ==
    LET D == <<"0", "1", "2", "3", "4", "5", "6", "7", "8", "9",
               "A", "B", "C", "D", "E", "F">>
    IN  D[((n \div 4096) % 16) + 1] \o D[((n \div 256) % 16) + 1]
            \o D[((n \div 16) % 16) + 1] \o D[(n % 16) + 1]

\* the tick value of the position the last call was given
TicksOf(p) == round(times_ticks_per_um(p))

\* C19: for a position whose tick value t is in the signed 32-bit range,
\* move_to_target writes exactly the frame '<08 ' H '>' CR, H being the 8
\* upper-case zero-padded hex digits of t modulo 2^32.
C19_MoveToTargetFrame ==
    (call.op = "move_to_target" /\ ~TicksOutOfRange(call.args[1])) =>
        LET t == TicksOf(call.args[1])
        IN  /\ Len(StageWrites) = 1
            /\ Wire(StageWrites[1].frame) =
                   "<08 " \o UpperHex4(t.hi % Half) \o UpperHex4(t.lo)
                       \o ">\r"

\* move_to_target(7500.0) wrote <08 00003A98>
C19_Witness ==
    /\ call.op = "move_to_target"
    /\ call.args[1] = Um(7500)
    /\ call.res = "ok"
    /\ Len(StageWrites) = 1
    /\ Wire(StageWrites[1].frame) = "<08 00003A98>\r"

\* the 8-digit fields the last call put into its frame, with the tick
\* values they stand for
SentFields ==
    IF call.op = "move_to_target"
    THEN <<TicksOf(call.args[1])>>
    ELSE <<TicksOf(call.args[2]), TicksOf(call.args[1])>>

\* C20: the 8-hex-digit field that move_to_target and set_soft_limits put
\* into their frame for a signed 32-bit tick value t is read back as t by
\* the reply codec's signed 32-bit field.
C20_S32RoundTrip ==
    (call.op \in {"move_to_target", "set_soft_limits"}
         /\ StageWrites # <<>>) =>
        LET sent == [i \in DOMAIN SentFields |->
                         upper(format_08x(mask32(SentFields[i])))]
        IN  /\ StageWrites[1].frame.arg =
                   join(IF call.op = "move_to_target" THEN sent
                        ELSE Append(sent,
                               upper(format_x(
                                   round_ratio(call.args[3], 4), 4))))
            /\ \A i \in DOMAIN sent :
                   unpack_int32(sent[i]) = SentFields[i]

\* soft limits from -2^30 um, the lowest tick value, to 2^30 - 1/2 um, the
\* highest, were sent
C20_Witness ==
    /\ call.op = "set_soft_limits"
    /\ StageWrites # <<>>
    /\ TicksOf(call.args[1]) = [hi |-> -32768, lo |-> 0]
    /\ TicksOf(call.args[2]) = [hi |-> 32767, lo |-> 65535]

\* ------------------------------------------------------------------------
\* Properties of the state word's decoding
\* ------------------------------------------------------------------------
\* C23: the bitfield decoded from a 24-bit state word has flag k equal to
\* bit k of the word, for each of the 24 flags: all false for the word 0,
\* only Stalled true for the word with bit 23 alone.
C23_FlagsAreTheBits ==
    \A x \in DOMAIN stats :
        \A k \in 0..23 : stats[x][k] = PyBool(Bit(truth[x], k))

\* ------------------------------------------------------------------------
\* Properties of the fields and of the single-axis commands
\* ------------------------------------------------------------------------
\* n in 0 .. 15, 0 .. 255 and 0 .. 2^24 - 1 as 1, 2 and 6 upper-case hex
\* digits
UpperHex1(n) ==
    LET D == <<"0", "1", "2", "3", "4", "5", "6", "7", "8", "9",
               "A", "B", "C", "D", "E", "F">>
    IN  D[(n % 16) + 1]

UpperHex2(n) == UpperHex1(n \div 16) \o UpperHex1(n)

UpperHex6(n) == UpperHex2(n \div Half) \o UpperHex4(n % Half)

\* a two-part number of 32 bits as 8 upper-case hex digits
UpperHex8(t) == UpperHex4(t.hi % Half) \o UpperHex4(t.lo)

\* the argument string of the frame the last call is to write: each number
\* as N/4 upper-case hex digits for its N-bit field
ExpectedFields ==
    LET a == call.args
    IN  CASE call.op = "move_to_target" -> UpperHex8(TicksOf(a[1]))
          [] call.op = "set_soft_limits" ->
                 UpperHex8(TicksOf(a[2])) \o " " \o UpperHex8(TicksOf(a[1]))
                     \o " " \o UpperHex4(round_ratio(a[3], 4))
          [] call.op = "distance_step" ->
                 (IF The(a[1]).hi >= 0 THEN FORWARD ELSE BACKWARD) \o " "
                     \o UpperHex8(TicksOf(abs(The(a[1]))))
          [] call.op = "set_closed_loop_speed_and_accel" ->
                 UpperHex6(round_ratio(a[1] * 64 * a[4], 125)) \o " "
                     \o UpperHex6(round_ratio(a[3] * 64 * a[4], 125)) \o " "
                     \o UpperHex6(round_ratio(
                            round_ratio(a[1] * 64 * a[4], 125) * a[2] * a[4],
                            a[1]))
                     \o " " \o UpperHex4(a[4])
          [] call.op = "run" ->
                 a[1] \o " " \o UpperHex2(round_ratio(The(a[2]), 2))
          [] call.op = "set_open_loop_speed" ->
                 UpperHex2(round_ratio(a[1] * 255, 100))
          [] call.op = "set_soft_limit_state" ->
                 UpperHex1(IF a[1] THEN 1 ELSE 0)

\* the last call wrote a frame with a numeric argument
WroteNumbers ==
    /\ StageWrites # <<>>
    /\ \/ call.op \in {"move_to_target", "set_soft_limits",
                        "set_closed_loop_speed_and_accel",
                        "set_open_loop_speed", "set_soft_limit_state"}
       \/ call.op = "distance_step" /\ call.args[1] # Nothing
       \/ /\ call.op = "run" /\ call.args[2] # Nothing
          /\ round_ratio(The(call.args[2]), 2) \in 0..255

\* C21: every number an axis operation puts into a frame for an N-bit field
\* is N/4 zero-padded upper-case hex digits: 8 for the move target, the soft
\* limits and the step size, 6 for the speed registers, 4 for the margin and
\* the interval count, 2 for the run duration and the open-loop speed, 1 for
\* the soft-limit state.
C21_FieldWidths ==
    WroteNumbers => StageWrites[1].frame.arg = ExpectedFields

\* C22: run(direction, seconds) writes a run frame if and only if the
\* direction is Forward or Backward and round(seconds * 10) is in 0 .. 255;
\* otherwise it raises and writes nothing.
C22_RunRange ==
    (call.op = "run" /\ call.args[2] # Nothing) =>
        LET duration == round_ratio(The(call.args[2]), 2)
        IN  IF call.args[1] \in {FORWARD, BACKWARD}
               /\ 0 <= duration /\ duration <= 255
            THEN /\ StageWrites # <<>>
                 /\ StageWrites[1].frame.cmd = RUN
            ELSE /\ call.res = "raise"
                 /\ opTrace = <<>>

\* the supported baud rates
SupportedRates == {19200, 38400, 57600, 115200, 250000}

\* the frames of the last call that were written to the transceiver
TrWrites == SelectSeq(opTrace, LAMBDA e : e.k = "w" /\ e.frame.tr)

\* C24: on the axis and on the transceiver, the code set_baud_rate(r)
\* writes for a supported rate r is the code that get_baud_rate decodes to
\* r, distinct rates have distinct codes, and set_baud_rate with another
\* rate raises and writes nothing.
C24_BaudRateBijection ==
    /\ \A r1, r2 \in SupportedRates :
           r1 # r2 => BaudRateCode[r1] # BaudRateCode[r2]
    /\ (call.op \in {"set_baud_rate", "tr_set_baud_rate"}) =>
           IF call.args[1] \in SupportedRates
           THEN LET sent == IF call.op = "set_baud_rate" THEN StageWrites
                            ELSE TrWrites
                    code == format_x(
                                CHOOSE n \in 0..255 :
                                    BaudRateInverse(Ctx0, n).ret =
                                        Some(call.args[1]), 2)
                IN  /\ sent # <<>>
                    /\ sent[1].frame.cmd = BAUD_RATE
                    /\ sent[1].frame.arg =
                           (IF call.op = "set_baud_rate" THEN ""
                            ELSE "1 ") \o Str(code)
           ELSE call.res = "raise" /\ opTrace = <<>>
    /\ (call.op \in {"get_baud_rate", "tr_get_baud_rate"}
            /\ call.res = "ok") =>
           /\ call.ret # Nothing
           /\ The(call.ret) \in SupportedRates
           /\ hex_uint(BaudRateCode[The(call.ret)]) = call.args[1]

\* the transceiver was set to 250000 baud
C24_Witness ==
    /\ call.op = "tr_set_baud_rate"
    /\ call.args = <<250000>>
    /\ call.res = "ok"
    /\ TrWrites # <<>>

\* C25: distance_step() without a size on a controller that was never
\* given one writes a closed-loop step frame and does not raise on the
\* missing size.
C25_FirstStepWithoutSize ==
    (/\ call.op = "distance_step"
     /\ call.args = <<Nothing>>
     /\ ~attrs[call.addr].step_size_specified
     /\ attrs[call.addr].last_direction = NEITHER) =>
        /\ StageWrites # <<>>
        /\ StageWrites[1].frame.cmd = STEP_CLOSED_LOOP
        /\ call.err # "ValueError"

\* the last call was multi_time_step with a direction and, of its three
\* optional arguments, n supplied
StepCallWith(n) ==
    /\ call.op = "multi_time_step"
    /\ call.args[1] # NEITHER
    /\ Cardinality({i \in 2..4 : call.args[i] # Nothing}) = n

\* the open-loop step frames the last call wrote
StepFrames ==
    SelectSeq(opTrace,
              LAMBDA e : IsStageWrite(e) /\ e.frame.cmd = STEP_OPEN_LOOP)

\* the last call gave a step count and times that are in order and in
\* range for every time interval unit
StepArgsInRange ==
    /\ StepCallWith(3)
    /\ The(call.args[2]) > 0 /\ The(call.args[2]) <= 65535
    /\ The(call.args[4]) < The(call.args[3])
    /\ \A u \in TimeUnits : The(call.args[3]) <= 65535 * u

\* C27: multi_time_step with none of the three optional arguments writes a
\* step frame with the direction only, and with all three (in range) it is
\* accepted too; with one or two of them, or with a duration that is not
\* below the interval, it raises.
C27_AllOrNone ==
    /\ StepCallWith(0) =>
           /\ Len(StepFrames) = 1
           /\ StepFrames[1].frame.arg = call.args[1]
    /\ StepArgsInRange =>
           call.err \notin {"AssertionError", "TypeError", "AttributeError"}
    /\ (StepCallWith(1) \/ StepCallWith(2)) => call.res = "raise"
    /\ (StepCallWith(3) /\ The(call.args[4]) >= The(call.args[3])) =>
           call.res = "raise"

\* C28: multi_time_step with a direction, the three optional arguments, a
\* duration below the interval and every value within 16 bits writes
\* exactly one open-loop step frame, with the direction and three fields of
\* 16 bits: the count, and the interval and the duration in time interval
\* units.
C28_StepFrame ==
    (StepArgsInRange /\ attrs[call.addr].time_interval_us # Nothing
         /\ call.err \notin {"ValueError", "IllegalCommandError",
                             "IllegalCommandFormatError"}) =>
        /\ Len(StepFrames) = 1
        /\ Len(StepFrames[1].frame.arg) = 16

\* ------------------------------------------------------------------------
\* Properties of what a controller remembers between calls
\* ------------------------------------------------------------------------
\* the direction of a step of the given signed size
SignDirection(step_size_um) ==
    IF step_size_um.hi >= 0 THEN FORWARD ELSE BACKWARD

\* the size the call gave to its controller, if it gave one
GivenSize(cl) ==
    IF cl.op = "set_distance_step_size" THEN Some(cl.args[1])
    ELSE IF cl.op = "distance_step" THEN cl.args[1]
    ELSE Nothing

\* C26: a call of distance_step(s) or set_distance_step_size(s) on a
\* controller makes that controller remember Forward if s >= 0 and Backward
\* otherwise, no other call and no call on another controller changes what
\* a controller remembers, and distance_step() without a size on a
\* controller that remembers a direction writes one closed-loop step frame
\* with that direction and no size.
C26_RememberedDirection ==
    [][/\ \A a \in Addresses :
              attrs'[a].last_direction =
                  IF call'.addr = a /\ GivenSize(call') # Nothing
                  THEN SignDirection(The(GivenSize(call')))
                  ELSE attrs[a].last_direction
       /\ (/\ call'.op = "distance_step"
           /\ call'.args = <<Nothing>>
           /\ attrs[call'.addr].last_direction # NEITHER) =>
              LET w == SelectSeq(opTrace', IsStageWrite)
              IN  /\ Len(w) = 1
                  /\ w[1].addr = call'.addr
                  /\ w[1].frame.cmd = STEP_CLOSED_LOOP
                  /\ w[1].frame.arg = attrs[call'.addr].last_direction]_vars

\* a step without a size went backward on '01' while '02' remembers Forward
C26_Witness ==
    /\ call.op = "distance_step"
    /\ call.args = <<Nothing>>
    /\ call.addr = "01"
    /\ call.res = "ok"
    /\ attrs["01"].last_direction = BACKWARD
    /\ attrs["02"].last_direction = FORWARD
    /\ StageWrites # <<>>
    /\ StageWrites[1].frame.arg = BACKWARD

\* the queries for the time interval units in a trace
UnitQueries(trace) ==
    SelectSeq(trace,
              LAMBDA e : IsStageWrite(e) /\ e.frame.cmd = TIME_INTERVAL_UNITS)

\* C29: once a controller holds the time interval units, no call on it,
\* get_time_interval_units or multi_time_step, writes the query again, the
\* value never changes and get_time_interval_units returns it; the value is
\* only set by a call on that controller that wrote the query once and got
\* its answer, and a query that fails leaves it unset.
C29_UnitsQueriedOnce ==
    [][\A a \in Addresses :
           LET before == attrs[a].time_interval_us
               after == attrs'[a].time_interval_us
               here == call'.addr = a
               get == here /\ call'.op = "get_time_interval_units"
           IN  /\ before # Nothing =>
                      /\ after = before
                      /\ here => UnitQueries(opTrace') = <<>>
                      /\ get => call'.res = "ok" /\ call'.ret = before
               /\ (before = Nothing /\ after # Nothing) =>
                      /\ here
                      /\ Len(UnitQueries(opTrace')) = 1
                      /\ get => call'.res = "ok" /\ call'.ret = after
               /\ (before = Nothing /\ get /\ call'.res # "ok") =>
                      after = Nothing]_vars

\* get_time_interval_units returned what '02' holds without writing
C29_Witness ==
    /\ call.op = "get_time_interval_units"
    /\ call.addr = "02"
    /\ call.res = "ok"
    /\ call.ret = Some(100)
    /\ attrs["02"].time_interval_us = Some(100)
    /\ attrs["01"].time_interval_us = Some(1)
    /\ opTrace = <<>>

\* ------------------------------------------------------------------------
\* Properties of the coordinator's settings
\* ------------------------------------------------------------------------
\* the argument string of the closed-loop speed frame of a setting
SpeedFields(s) ==
    LET min_vel == IF Len(s) > 2 THEN s[3] ELSE 20
        vel_counts == round_ratio(s[1] * 64, 125)
    IN  UpperHex6(vel_counts) \o " "
            \o UpperHex6(round_ratio(min_vel * 64, 125)) \o " "
            \o UpperHex6(round_ratio(vel_counts * s[2], s[1])) \o " "
            \o UpperHex4(1)

\* the closed-loop speed frames the last call wrote, as (address, argument)
SpeedFramesWritten ==
    {<<opTrace[i].addr, opTrace[i].frame.arg>> :
        i \in {j \in DOMAIN opTrace :
                  /\ IsStageWrite(opTrace[j])
                  /\ opTrace[j].frame.cmd = CLOSED_LOOP_SPEED}}

\* the frames of a call with the global setting g (or none) and the
\* per-axis settings axes: every axis gets its own entry if it has one and
\* the global setting otherwise
SpeedFramesDue(g, axes) ==
    {<<stages[i].val,
       SpeedFields(IF \E k \in DOMAIN axes : axes[k].name = stages[i].name
                   THEN Lookup(axes, stages[i].name)
                   ELSE The(g))>> :
        i \in {j \in DOMAIN stages :
                  \/ g # Nothing
                  \/ \E k \in DOMAIN axes : axes[k].name = stages[j].name}}

\* C30: the coordinator's set_closed_loop_speed_and_accel with a global
\* setting applies it to every axis, per-axis entries override it, and with
\* per-axis entries only exactly the named axes are set: a call that names
\* only axes of the coordinator does not fail for its form, and when it
\* returns it has written exactly the frames that are due.
C30_GlobalAndPerAxisSettings ==
    (call.op = "multi_set_closed_loop_speed_and_accel") =>
        LET axes == LowerKeys(<<>>, call.args[3])
        IN  axis_check(Keys(axes), stages) =>
                /\ call.err # "AttributeError"
                /\ call.res = "ok" =>
                       SpeedFramesWritten = SpeedFramesDue(call.args[2], axes)

\* ------------------------------------------------------------------------
\* Properties of the coordinator's broadcasts
\* ------------------------------------------------------------------------
\* the address the interface has selected when event i of the call is
\* written: that of the last select frame before it, in this call or before
RECURSIVE SelectedAt(_)
SelectedAt(i) ==
    IF i = 1 THEN call.pre_last
    ELSE IF IsSelectWrite(opTrace[i - 1]) THEN opTrace[i - 1].frame.arg
    ELSE SelectedAt(i - 1)

\* the addresses the stage commands of the call went to, in order
CommandedAddresses == [i \in DOMAIN StageWrites |-> StageWrites[i].addr]

\* C31: the coordinator's halt() writes exactly one halt command to every
\* axis it owns and close() exactly one release-host-control command to
\* every axis it owns, whatever the axes' state, and each command is written
\* with its axis's address selected on the transport.
C31_BroadcastReachesEveryAxis ==
    (call.op \in {"multi_halt", "multi_close"}) =>
        /\ \A i \in DOMAIN opTrace :
               IsStageWrite(opTrace[i]) =>
                   /\ opTrace[i].frame =
                          StageFrame(IF call.op = "multi_halt" THEN HALT
                                     ELSE RELEASE_HOST_CONTROL, "")
                   /\ SelectedAt(i) = opTrace[i].addr
        /\ call.res = "ok" => CommandedAddresses = Values(stages)

\* halt() reached two axes, of which the first had given up host control
\* and both had to be selected
C31_Witness ==
    /\ call.op = "multi_halt"
    /\ call.res = "ok"
    /\ Len(stages) = 2
    /\ stages[1].val # stages[2].val
    /\ Len(SelectSeq(opTrace, IsSelectWrite)) = 2
    /\ ~StageWrites[1].hc

C35_RangeErrorBeforeAnyMove ==
    (/\ moving = "move_absolute"
     /\ pc = "done"
     /\ call.op = "move_to_target"
     /\ call.err = "AssertionError") =>
        moved = <<>>

\* C36: move_absolute(wait=false) and move_for_time(wait=false) never poll,
\* so they query no closed-loop state and end with neither the stall nor the
\* timeout error; each named axis is sent one motion command, and the call
\* returns when every named axis has had its own.
C36_NoWaitNoPolling ==
    (moving # "none" /\ ~wait) =>
        /\ pc \in {"issue", "issued", "done"}
        /\ polled = <<>>
        /\ outcome \notin {"stalled", "timedout"}
        /\ \A i \in DOMAIN opTrace :
               IsStageWrite(opTrace[i]) =>
                   opTrace[i].frame.cmd =
                       IF moving = "move_absolute" THEN MOVE_TO_TARGET
                       ELSE RUN
        /\ (call.op \in {"move_to_target", "run"} /\ call.res = "ok") =>
               Len(StageWrites) = 1
        /\ (pc = "done" /\ outcome = "returned") => moved = targets

\* move_for_time(wait=false) on two axes returned with both commanded
C36_Witness ==
    /\ moving = "move_for_time"
    /\ ~wait
    /\ pc = "done"
    /\ outcome = "returned"
    /\ Len(targets) = 2
    /\ moved = targets
    /\ call.op = "run"

\* the soft-limit-values frames the last call wrote, as (address, argument)
LimitFramesWritten ==
    [i \in DOMAIN StageWrites |->
        <<StageWrites[i].addr, StageWrites[i].frame.cmd,
          StageWrites[i].frame.arg>>]

\* the frames of a call with the per-axis limits axes: each named axis its
\* maximum, its minimum and its margin, 0 if it gave none
LimitFramesDue(axes) ==
    [i \in DOMAIN axes |->
        <<Lookup(stages, axes[i].name), SOFT_LIMIT_VALUES,
          UpperHex8(TicksOf(axes[i].val[2])) \o " "
              \o UpperHex8(TicksOf(axes[i].val[1])) \o " "
              \o UpperHex4(IF Len(axes[i].val) > 2
                           THEN round_ratio(axes[i].val[3], 4) ELSE 0)>>]

\* the call ended on a reply that could not be parsed
EndedOnEmptyReply ==
    /\ opTrace # <<>>
    /\ IsRead(opTrace[Len(opTrace)])
    /\ opTrace[Len(opTrace)].data = ""

\* C37: the coordinator's set_soft_limits takes for each named axis a pair
\* (min, max) or a triple (min, max, margin): a call that names only axes of
\* the coordinator is not refused for the shape of a value (a ValueError
\* can only come from a reply), and when it returns it has written to each
\* named axis, and to no other, one soft-limit-values frame with the axis's
\* values, the margin 0 if omitted.
C37_SoftLimitsPerAxis ==
    (call.op = "multi_set_soft_limits") =>
        LET axes == LowerKeys(<<>>, call.args[1])
        IN  axis_check(Keys(axes), stages) =>
                /\ call.err = "ValueError" => EndedOnEmptyReply
                /\ call.res = "ok" =>
                       LimitFramesWritten = LimitFramesDue(axes)

\* ------------------------------------------------------------------------
\* Properties of the step size after a call that failed
\* ------------------------------------------------------------------------
\* C40: a distance_step(size) or set_distance_step_size(size) that fails its
\* range check, or whose command the device rejects, leaves the controller's
\* last_direction and step_size_specified as they were before the call.
C40_FailedStepKeepsMemory ==
    [][(/\ GivenSize(call') # Nothing
        /\ call'.err \in {"AssertionError", "IllegalCommandError",
                          "IllegalCommandFormatError"}) =>
           /\ attrs'[call'.addr].last_direction =
                  attrs[call'.addr].last_direction
           /\ attrs'[call'.addr].step_size_specified =
                  attrs[call'.addr].step_size_specified]_vars

\* ------------------------------------------------------------------------
\* Properties of the replies
\* ------------------------------------------------------------------------
\* what the last read of the call delivered
LastReply ==
    IF opTrace # <<>> /\ IsRead(opTrace[Len(opTrace)])
    THEN opTrace[Len(opTrace)].data ELSE "-"

\* C32: a reply whose opcode is illegal-command, with or without words
\* after it, makes _parse_reply raise IllegalCommandError, and the reply
\* that is the illegal-command-format opcode alone makes it raise
\* IllegalCommandFormatError; a reply with either opcode never comes back as
\* a parsed tuple, and an axis operation that read such a reply ends with
\* that error and returns nothing.
C32_ErrorRepliesRaise ==
    /\ (call.op = "_parse_reply") =>
           LET reply == call.args[1]
           IN  /\ reply[1] = ILLEGAL_COMMAND =>
                      call.err = "IllegalCommandError"
               /\ reply = <<ILLEGAL_COMMAND_FORMAT>> =>
                      call.err = "IllegalCommandFormatError"
               /\ reply[1] \in {ILLEGAL_COMMAND, ILLEGAL_COMMAND_FORMAT} =>
                      call.res = "raise" /\ call.ret = Nothing
    /\ (call.op \in {"get_drive_mode", "set_drive_mode"}) =>
           /\ LastReply = "illegal" =>
                  /\ call.err = "IllegalCommandError"
                  /\ call.ret = Nothing
           /\ LastReply = "format" =>
                  /\ call.err = "IllegalCommandFormatError"
                  /\ call.ret = Nothing

\* an illegal-command reply with two words after the opcode was refused
C32_Witness ==
    /\ call.op = "_parse_reply"
    /\ call.args[1] = <<ILLEGAL_COMMAND, <<"1">>, <<"0", "3">>>>
    /\ call.err = "IllegalCommandError"

\* the reply is in the drive-mode shape of the reply table: the opcode, a
\* field of 4 bits that is a drive mode and a field of 16 bits
InDriveModeShape(words) ==
    /\ Len(words) = 3
    /\ words[1] = DRIVE_MODE
    /\ Len(words[2]) = 1 /\ Str(words[2]) \in {OPEN_LOOP, CLOSED_LOOP}
    /\ Len(words[3]) = 4

\* C33: get_drive_mode writes the drive-mode command with the mode-query
\* code and, when the stage answers in the drive-mode shape of the reply
\* table (u4, u16), returns the DriveMode that the answer reports.
C33_DriveModeQuery ==
    (call.op = "get_drive_mode") =>
        /\ StageWrites # <<>> =>
               StageWrites[1].frame = StageFrame(DRIVE_MODE, MODE_QUERY)
        /\ (LastReply = "ok" /\ InDriveModeShape(call.args[1])) =>
               /\ call.res = "ok"
               /\ call.ret = Some(Str(call.args[1][2]))


\* ------------------------------------------------------------------------
\* Properties of threads on one shared transport
\* ------------------------------------------------------------------------
\* the command of thread t's call arrived at the stage its axis addresses
Delivered(t) == arrived[t] # Nothing => The(arrived[t]) = taxis[t]

\* the last read of thread t's call took the reply to t's own frame, and a
\* stage's reply came from the stage its axis addresses
Answered(t) ==
    taken[t] # Nothing =>
        /\ Own(t, The(taken[t]).want, The(taken[t]).data)
        /\ The(taken[t]).data[1].dev = taxis[t]

Misdirecting(t) == tpc[t].at = "write" /\ hub_selected # taxis[t]

\* thread t is about to read while the oldest reply on the line answers
\* another frame than its own
Stealing(t) ==
    /\ tpc[t].at = "read" /\ line # <<>>
    /\ ~Own(t, "stage", Incoming)

\* C38: without a lock around _send the transport lets a thread write its
\* stage command while the hub is on another device, and lets it read a
\* reply that answers another thread's frame: in both situations the step is
\* enabled.
C38_UnlockedRace ==
    ~use_lock =>
        \A t \in Threads :
            /\ Misdirecting(t) => ENABLED WriteCommand(t)
            /\ Stealing(t) => ENABLED ReadReply(t)

\* two threads on different axes of a USB hub, no lock: the command of one
\* arrived at the other's stage, and one read the reply to the other's
\* command
C38_Witness ==
    /\ ~use_lock /\ kind # "poe"
    /\ taxis["t1"] \in Addresses /\ taxis["t2"] \in Addresses
    /\ taxis["t1"] # taxis["t2"]
    /\ \E t \in Threads :
           /\ arrived[t] # Nothing
           /\ The(arrived[t]) \in Addresses \ {taxis[t]}
    /\ \E t \in Threads :
           /\ taken[t] # Nothing
           /\ The(taken[t]).want = "stage"
           /\ Len(The(taken[t]).data) = 1
           /\ The(taken[t]).data[1].kind = "stage"
           /\ The(taken[t]).data[1].to # t

====
